---- MODULE Spec2Model ----
(***************************************************************************)
(* Model of the route-ordering core of route-optimizer (class TSPSolver,   *)
(* src/src/types/route.ts): the cost model, the nearest-neighbour          *)
(* constructor, the 2-opt refiner and the optimizeRoute orchestrator; and  *)
(* of GoogleMapsService.getDistanceMatrix, which builds the matrix         *)
(* (src/src/services/googleMapsService.ts); and of the application state   *)
(* (src/src/App.tsx) with its three handlers and                           *)
(* GoogleMapsService.getOptimizedRoute, which they call.                   *)
(*                                                                         *)
(* Numbers.  The code computes costs in IEEE doubles; the model computes   *)
(* them exactly, over integers scaled by CostScale (600000 * cost =        *)
(* 180 * metres + 7000 * seconds), with Infinity as a separate value.      *)
(* Rounding of the doubles is not modelled.                                *)
(*                                                                         *)
(* Indices.  Arrays are 0-based in the code; At(s, k) reads position k of  *)
(* a TLA+ sequence the way the code reads s[k].                            *)
(*                                                                         *)
(* Runs.  Every invocation has its own arguments and locals; the state     *)
(* variables are functions over Runs, one component per invocation.        *)
(***************************************************************************)
EXTENDS Integers, Sequences, FiniteSets, TLC

VARIABLES
    locations,       \* [run] argument of optimizeRoute: Seq of [id, isBase]
    distanceMatrix,  \* [run] argument matrix: fromId -> toId -> element
    pc,              \* [run] position of the invocation
    deliveries,      \* [run] `deliveries` argument of nearestNeighborTSP
    unvisited,       \* [run] nearestNeighborTSP local
    route,           \* [run] nearestNeighborTSP local
    current,         \* [run] nearestNeighborTSP local: <<>> or <<stop>>
    result,          \* [run] <<>> or <<OptimizedRoute>> returned by optimizeRoute
    error,           \* [run] "" or the message of the Error thrown
    tourIn,          \* [run] `route` argument of optimize2Opt
    improved,        \* [run] optimize2Opt local
    bestRoute,       \* [run] optimize2Opt local
    bestCost,        \* [run] optimize2Opt local
    iIdx,            \* [run] optimize2Opt loop variable i
    jIdx,            \* [run] optimize2Opt loop variable j
    tourOut,         \* [run] <<>> or <<tour>> returned by optimize2Opt
    calls,           \* [run] number of optimize2Opt calls made so far
    prevOut,         \* [run] <<>> or <<tour>> returned by the previous call
    costArgs,        \* <<>> or <<fromId, toId>> of the last calculateCost call
    costOut,         \* <<>> or <<cost>> returned by that call
    apiKeyConfigured, \* what isApiKeyConfigured() answers
    googleLoaded,    \* the Google Maps JavaScript API is loaded
    dmPc,            \* position of the getDistanceMatrix call
    realOutcome,     \* <<>>, <<"resolved", matrix>> or <<"rejected">>: the
                     \* promise of getRealDistanceMatrix
    dmResult,        \* <<>> or <<matrix>> getDistanceMatrix resolved with
    appLocations,    \* App state `locations`: Seq of [id, isBase]
    appDistanceMatrix, \* App state `distanceMatrix`
    optimizedRoute,  \* App state: <<>> (null) or <<OptimizedRoute>>
    isOptimizing,    \* App state
    appPc,           \* position of the handleOptimizeRoute run
    nextId,          \* the clock of Date.now(): number of the next id
    orPc,            \* position of the getOptimizedRoute call
    orResult,        \* <<>> (null) or <<result>> of getOptimizedRoute
    orAnswer         \* <<>> or <<status, result>> given to the Directions callback

vars == <<locations, distanceMatrix, pc, deliveries, unvisited, route, current, result,
          error, tourIn, improved, bestRoute, bestCost, iIdx, jIdx, tourOut,
          calls, prevOut, costArgs, costOut, apiKeyConfigured, googleLoaded,
          dmPc, realOutcome, dmResult, appLocations, appDistanceMatrix,
          optimizedRoute, isOptimizing, appPc, nextId, orPc, orResult, orAnswer>>

nnVars == <<deliveries, unvisited, route, current>>
optVars == <<tourIn, improved, bestRoute, bestCost, iIdx, jIdx, tourOut, calls, prevOut>>
costVars == <<costArgs, costOut>>
inputVars == <<locations, distanceMatrix>>
mapsVars == <<apiKeyConfigured, googleLoaded, dmPc, realOutcome, dmResult>>
appVars == <<appLocations, appDistanceMatrix, optimizedRoute, isOptimizing, appPc, nextId>>
routeVars == <<orPc, orResult, orAnswer>>

----------------------------------------------------------------------------
(* Bounds of the model *)

MaxStops == 3        \* longest stop list given to optimizeRoute
MaxInterior == 3     \* most interior positions of a tour given to optimize2Opt
MaxSpecial == 2      \* most matrix entries that differ from the default entry
MaxMetres == 1       \* distances 0..MaxMetres in the cost-model specification
MaxSeconds == 1      \* durations 0..MaxSeconds in the cost-model specification

(* Program constants *)

DISTANCE_WEIGHT == 3     \* 0.3, in tenths
TIME_WEIGHT == 7         \* 0.7, in tenths
MetresPerKm == 1000
SecondsPerMin == 60

\* scaled cost = CostScale * cost (the weights are held in tenths)
CostScale == 10 * MetresPerKm * SecondsPerMin

Runs == {1, 2}

----------------------------------------------------------------------------
(* Values *)

StopIds == <<"L1", "L2", "L3", "L4", "L5">>

Idx(n) == 1..n

IdsUpTo(n) == {StopIds[k] : k \in Idx(n)}

At(s, k) == s[k + 1]

\* a number that is either finite (scaled integer) or +Infinity
Finite(v) == [inf |-> FALSE, val |-> v]

Infinity == [inf |-> TRUE, val |-> 0]

\* a < b that is false whenever one side is +Infinity, as with NaN
LessFiniteOnly(a, b) == ~a.inf /\ ~b.inf /\ a.val < b.val

\* a < b on numbers
Less(a, b) == IF a.inf THEN FALSE ELSE (b.inf \/ a.val < b.val)

\* a + b on numbers
Plus(a, b) == IF a.inf \/ b.inf THEN Infinity ELSE Finite(a.val + b.val)

LessEq(a, b) == ~Less(b, a)

Element(metres, seconds, st) ==
    [distance |-> [value |-> metres], duration |-> [value |-> seconds], status |-> st]

\* matrix[fromId]?.[toId] is defined
HasElement(matrix, fromId, toId) ==
    /\ fromId \in DOMAIN matrix
    /\ toId \in DOMAIN matrix[fromId]

----------------------------------------------------------------------------
(* Cost model *)

\* calculateCost without the test of the status
calculateCostNoStatus(fromId, toId, matrix) ==
    IF ~HasElement(matrix, fromId, toId) THEN Infinity
    ELSE LET element == matrix[fromId][toId] IN
         Finite(DISTANCE_WEIGHT * SecondsPerMin * element.distance.value
                + TIME_WEIGHT * MetresPerKm * element.duration.value)

\* calculateCost with the two weights exchanged
calculateCostSwapped(fromId, toId, matrix) ==
    IF ~HasElement(matrix, fromId, toId) THEN Infinity
    ELSE LET element == matrix[fromId][toId] IN
         IF element.status # "OK" THEN Infinity
         ELSE Finite(TIME_WEIGHT * SecondsPerMin * element.distance.value
                     + DISTANCE_WEIGHT * MetresPerKm * element.duration.value)

calculateCost(fromId, toId, matrix) ==
    IF ~HasElement(matrix, fromId, toId) THEN Infinity
    ELSE LET element == matrix[fromId][toId] IN
         IF element.status # "OK" THEN Infinity
         ELSE Finite(DISTANCE_WEIGHT * SecondsPerMin * element.distance.value
                     + TIME_WEIGHT * MetresPerKm * element.duration.value)

RECURSIVE RouteCostLoop(_, _, _, _)
RouteCostLoop(r, matrix, k, cost) ==
    IF k < Len(r) - 1
    THEN RouteCostLoop(r, matrix, k + 1,
                       Plus(cost, calculateCost(At(r, k), At(r, k + 1), matrix)))
    ELSE cost

calculateRouteCost(r, matrix) == RouteCostLoop(r, matrix, 0, Finite(0))

\* totals are held scaled: totalDistance in metres (km * 1000), totalTime in
\* seconds (minutes * 60), totalCost as a number scaled by CostScale
\* the totals with every entry that is there counted, whatever its status
RECURSIVE RouteTotalsLoopAnyStatus(_, _, _, _)
RouteTotalsLoopAnyStatus(order, matrix, k, acc) ==
    IF k < Len(order) - 1
    THEN LET fromId == At(order, k)
             toId == At(order, k + 1)
         IN IF HasElement(matrix, fromId, toId)
            THEN RouteTotalsLoopAnyStatus(order, matrix, k + 1,
                   [totalDistance |-> acc.totalDistance + matrix[fromId][toId].distance.value,
                    totalTime |-> acc.totalTime + matrix[fromId][toId].duration.value,
                    totalCost |-> Plus(acc.totalCost, calculateCost(fromId, toId, matrix))])
            ELSE RouteTotalsLoopAnyStatus(order, matrix, k + 1, acc)
    ELSE acc

\* the totals with the cost of every leg added, unavailable legs included
RECURSIVE RouteTotalsLoopCostAlways(_, _, _, _)
RouteTotalsLoopCostAlways(order, matrix, k, acc) ==
    IF k < Len(order) - 1
    THEN LET fromId == At(order, k)
             toId == At(order, k + 1)
             ok == HasElement(matrix, fromId, toId) /\ matrix[fromId][toId].status = "OK"
         IN RouteTotalsLoopCostAlways(order, matrix, k + 1,
              [totalDistance |-> acc.totalDistance
                                   + (IF ok THEN matrix[fromId][toId].distance.value ELSE 0),
               totalTime |-> acc.totalTime
                               + (IF ok THEN matrix[fromId][toId].duration.value ELSE 0),
               totalCost |-> Plus(acc.totalCost, calculateCost(fromId, toId, matrix))])
    ELSE acc

RECURSIVE RouteTotalsLoop(_, _, _, _)
RouteTotalsLoop(order, matrix, k, acc) ==
    IF k < Len(order) - 1
    THEN LET fromId == At(order, k)
             toId == At(order, k + 1)
         IN IF HasElement(matrix, fromId, toId) /\ matrix[fromId][toId].status = "OK"
            THEN RouteTotalsLoop(order, matrix, k + 1,
                   [totalDistance |-> acc.totalDistance + matrix[fromId][toId].distance.value,
                    totalTime |-> acc.totalTime + matrix[fromId][toId].duration.value,
                    totalCost |-> Plus(acc.totalCost, calculateCost(fromId, toId, matrix))])
            ELSE RouteTotalsLoop(order, matrix, k + 1, acc)
    ELSE acc

calculateRouteTotals(order, matrix) ==
    RouteTotalsLoop(order, matrix, 0,
                    [totalDistance |-> 0, totalTime |-> 0, totalCost |-> Finite(0)])

----------------------------------------------------------------------------
(* Array helpers *)

\* locations.map(l => l.id)
MapIds(locs) == [k \in 1..Len(locs) |-> locs[k].id]

\* locations.filter(l => !l.isBase)
RECURSIVE FilterDeliveries(_)
FilterDeliveries(locs) ==
    IF locs = <<>> THEN <<>>
    ELSE IF Head(locs).isBase THEN FilterDeliveries(Tail(locs))
         ELSE <<Head(locs)>> \o FilterDeliveries(Tail(locs))

HasBase(locs) == \E k \in 1..Len(locs) : locs[k].isBase

\* the last flagged stop taken for the base
FindBaseLast(locs) ==
    locs[CHOOSE k \in 1..Len(locs) :
            /\ locs[k].isBase
            /\ \A h \in (k + 1)..Len(locs) : ~locs[h].isBase]

\* locations.find(l => l.isBase), when there is one
FindBase(locs) ==
    locs[CHOOSE k \in 1..Len(locs) :
            /\ locs[k].isBase
            /\ \A h \in 1..(k - 1) : ~locs[h].isBase]

\* splice that removes the position after k
SpliceNext(s, k) == [h \in 1..(Len(s) - 1) |-> IF h - 1 <= k THEN s[h] ELSE s[h + 1]]

\* s.splice(k, 1): s without position k
Splice(s, k) == [h \in 1..(Len(s) - 1) |-> IF h - 1 < k THEN s[h] ELSE s[h + 1]]

----------------------------------------------------------------------------
(* Route constructor: the scan of one selection step *)

\* the scan with minCost never updated: every finite cost beats Infinity
RECURSIVE ScanNearestNoUpdate(_, _, _, _, _, _)
ScanNearestNoUpdate(currentId, unv, matrix, k, minCost, nearestIndex) ==
    IF k < Len(unv)
    THEN LET cost == calculateCost(currentId, At(unv, k).id, matrix)
         IN IF Less(cost, minCost)
            THEN ScanNearestNoUpdate(currentId, unv, matrix, k + 1, minCost, k)
            ELSE ScanNearestNoUpdate(currentId, unv, matrix, k + 1, minCost, nearestIndex)
    ELSE nearestIndex

\* the scan made with <=: among equal costs the last candidate wins, and
\* so it does when every cost is infinite
RECURSIVE ScanNearestLastTie(_, _, _, _, _, _)
ScanNearestLastTie(currentId, unv, matrix, k, minCost, nearestIndex) ==
    IF k < Len(unv)
    THEN LET cost == calculateCost(currentId, At(unv, k).id, matrix)
         IN IF LessEq(cost, minCost)
            THEN ScanNearestLastTie(currentId, unv, matrix, k + 1, cost, k)
            ELSE ScanNearestLastTie(currentId, unv, matrix, k + 1, minCost, nearestIndex)
    ELSE nearestIndex

RECURSIVE ScanNearest(_, _, _, _, _, _)
ScanNearest(currentId, unv, matrix, k, minCost, nearestIndex) ==
    IF k < Len(unv)
    THEN LET cost == calculateCost(currentId, At(unv, k).id, matrix)
         IN IF Less(cost, minCost)
            THEN ScanNearest(currentId, unv, matrix, k + 1, cost, k)
            ELSE ScanNearest(currentId, unv, matrix, k + 1, minCost, nearestIndex)
    ELSE nearestIndex

\* the selection made to depend on what another invocation has done
NearestIndexShared(currentId, unv, matrix) ==
    IF \E q \in Runs : pc[q] = "returned"
    THEN Len(unv) - 1
    ELSE ScanNearest(currentId, unv, matrix, 0, Infinity, 0)

\* the result of the scan dropped: the first unvisited stop is taken
NearestIndexFirst(currentId, unv, matrix) == 0

NearestIndex(currentId, unv, matrix) ==
    ScanNearest(currentId, unv, matrix, 0, Infinity, 0)

----------------------------------------------------------------------------
(* Route refiner: the segment reversal *)

\* the reversal started one position early
swap2OptEarly(r, a, b) ==
    [k \in 1..Len(r) |->
        IF a - 1 <= k - 1 /\ k - 1 <= b THEN At(r, (a - 1) + b - (k - 1)) ELSE r[k]]

\* the reversed copy thrown away: the candidate is the tour itself
swap2OptNone(r, a, b) == r

swap2Opt(r, a, b) ==
    [k \in 1..Len(r) |-> IF a <= k - 1 /\ k - 1 <= b THEN At(r, a + b - (k - 1)) ELSE r[k]]

\* the for loops of one pass from (i, j) on, then the next pass if a move
\* was accepted
RECURSIVE TwoOptLoop(_, _, _, _, _, _)
TwoOptLoop(n, matrix, best, i, j, imp) ==
    IF i < n - 2
    THEN IF j < n - 1
         THEN LET newRoute == swap2Opt(best, i, j)
              IN IF Less(calculateRouteCost(newRoute, matrix),
                         calculateRouteCost(best, matrix))
                 THEN TwoOptLoop(n, matrix, newRoute, i, j + 1, TRUE)
                 ELSE TwoOptLoop(n, matrix, best, i, j + 1, imp)
         ELSE TwoOptLoop(n, matrix, best, i + 1, i + 2, imp)
    ELSE IF imp THEN TwoOptLoop(n, matrix, best, 1, 2, FALSE)
         ELSE best

optimize2Opt(tour, matrix) == TwoOptLoop(Len(tour), matrix, tour, 1, 2, FALSE)

----------------------------------------------------------------------------
(* Inputs.  Stop ids are opaque keys for the code, so a stop list of n stops
   is taken to be L1..Ln in this order, with every choice of flags; the
   matrix ranges over the matrices on those ids. *)

StopLists(n) ==
    {[k \in 1..n |-> [id |-> StopIds[k], isBase |-> flags[k]]] : flags \in [1..n -> BOOLEAN]}

Low == Element(1000, 60, "OK")             \* cost 1

High == Element(5000, 300, "OK")           \* cost 5

Zero == Element(0, 0, "OK")                \* an id to itself

NotOk == Element(1000, 60, "ZERO_RESULTS")

SpecialKinds == {"absent", "notok", "high"}

OffDiagonal(n) == {p \in IdsUpTo(n) \X IdsUpTo(n) : p[1] # p[2]}

\* the matrix on L1..Ln whose entries are Low, except those of sp
MatrixOf(n, sp) ==
    [f \in IdsUpTo(n) |->
        [t \in {u \in IdsUpTo(n) : <<f, u>> \in DOMAIN sp => sp[<<f, u>>] # "absent"} |->
            IF f = t THEN Zero
            ELSE IF <<f, t>> \notin DOMAIN sp THEN Low
            ELSE IF sp[<<f, t>>] = "notok" THEN NotOk
            ELSE High]]

\* the subsets of S of at most k elements
RECURSIVE SubsetsUpTo(_, _)
SubsetsUpTo(S, k) ==
    IF k = 0 THEN {{}}
    ELSE LET smaller == SubsetsUpTo(S, k - 1)
         IN smaller \cup {T \cup {x} : T \in smaller, x \in S}

\* the matrices on L1..Ln with at most MaxSpecial entries of the given kinds
Matrices(n, kinds) ==
    {MatrixOf(n, sp) :
        sp \in UNION {[S -> kinds] : S \in SubsetsUpTo(OffDiagonal(n), MaxSpecial)}}

\* the same with at most `most` such entries
MatricesWith(n, kinds, most) ==
    {MatrixOf(n, sp) :
        sp \in UNION {[S -> kinds] : S \in SubsetsUpTo(OffDiagonal(n), most)}}

EmptyMatrix == [f \in {} |-> [t \in {} |-> Zero]]

\* tours given to optimize2Opt with m interior positions, on the ids
\* L1..L(m+1): closed on L1, open (it ends on L2), and closed with one
\* interior stop repeated
TourShapes(m) ==
    {[k \in 1..(m + 2) |-> IF k = m + 2 THEN StopIds[1] ELSE StopIds[k]],
     [k \in 1..(m + 2) |-> IF k = m + 2 THEN StopIds[2] ELSE StopIds[k]],
     [k \in 1..(m + 2) |-> IF k = m + 2 THEN StopIds[1]
                           ELSE IF k > 2 THEN StopIds[k - 1] ELSE StopIds[k]]}

\* the stop list with every flag moved to the next stop, the last to the first
FlagsMoved(locs) ==
    [k \in 1..Len(locs) |->
        [id |-> locs[k].id,
         isBase |-> locs[IF k = 1 THEN Len(locs) ELSE k - 1].isBase]]

\* the matrix with origin and destination exchanged
Transposed(m) ==
    [f \in DOMAIN m |-> [t \in {u \in DOMAIN m : f \in DOMAIN m[u]} |-> m[t][f]]]

\* matrices of the cost-model specification: rows and entries may be absent
CostElements ==
    {Element(d, t, st) : d \in 0..MaxMetres, t \in 0..MaxSeconds,
                         st \in {"OK", "ZERO_RESULTS"}}

CostRows ==
    UNION {[T -> CostElements] : T \in SUBSET IdsUpTo(2)}

CostMatrices ==
    UNION {[F -> CostRows] : F \in SUBSET IdsUpTo(2)}

----------------------------------------------------------------------------
(* Initial states *)

Everywhere(v) == [r \in Runs |-> v]

\* no call of getDistanceMatrix made
InitMapsIdle ==
    /\ dmPc = "idle"
    /\ realOutcome = <<>>
    /\ dmResult = <<>>

\* the application as mounted (App.tsx:11-14), no getOptimizedRoute call made
InitAppIdle ==
    /\ appLocations = <<>>
    /\ appDistanceMatrix = EmptyMatrix
    /\ optimizedRoute = <<>>
    /\ isOptimizing = FALSE
    /\ appPc = "idle"
    /\ nextId = 1
    /\ orPc = "idle"
    /\ orResult = <<>>
    /\ orAnswer = <<>>

\* no call made by any caller of TSPSolver
InitCallers ==
    /\ pc = Everywhere("idle")
    /\ deliveries = Everywhere(<<>>)
    /\ unvisited = Everywhere(<<>>)
    /\ route = Everywhere(<<>>)
    /\ current = Everywhere(<<>>)
    /\ result = Everywhere(<<>>)
    /\ error = Everywhere("")
    /\ improved = Everywhere(FALSE)
    /\ bestRoute = Everywhere(<<>>)
    /\ bestCost = Everywhere(Finite(0))
    /\ iIdx = Everywhere(0)
    /\ jIdx = Everywhere(0)
    /\ tourOut = Everywhere(<<>>)
    /\ calls = Everywhere(0)
    /\ prevOut = Everywhere(<<>>)
    /\ costArgs = <<>>
    /\ costOut = <<>>

InitLocals ==
    /\ InitCallers
    /\ InitMapsIdle
    /\ InitAppIdle
    /\ apiKeyConfigured = FALSE
    /\ googleLoaded = FALSE

\* one caller holding a stop list and a matrix, which may be the empty one
Init ==
    /\ InitLocals
    /\ \E n \in 0..MaxStops :
         \E locs \in StopLists(n), m \in Matrices(n, SpecialKinds) \cup {EmptyMatrix} :
            /\ locations = [r \in Runs |-> IF r = 1 THEN locs ELSE <<>>]
            /\ distanceMatrix = [r \in Runs |-> IF r = 1 THEN m ELSE EmptyMatrix]
    /\ tourIn = Everywhere(<<>>)

----------------------------------------------------------------------------
(* optimizeRoute *)

\* the degenerate result closed on the base, like a tour
DegenerateClosed(locs) ==
    [order |-> IF HasBase(locs) THEN Append(MapIds(locs), FindBase(locs).id) ELSE MapIds(locs),
     totalDistance |-> 0, totalTime |-> 0, totalCost |-> Finite(0)]

Degenerate(locs) ==
    [order |-> MapIds(locs), totalDistance |-> 0, totalTime |-> 0,
     totalCost |-> Finite(0)]

\* locations.length <= 2: the degenerate result
OptimizeRouteDegenerate(r) ==
    /\ pc[r] = "idle"
    /\ Len(locations[r]) <= 2
    /\ result' = [result EXCEPT ![r] = <<Degenerate(locations[r])>>]
    /\ pc' = [pc EXCEPT ![r] = "returned"]
    /\ UNCHANGED <<inputVars, nnVars, error, optVars, costVars, mapsVars, appVars, routeVars>>

\* the missing base answered with the stops as given instead of an Error
OptimizeRouteNoThrow(r) ==
    /\ pc[r] = "idle"
    /\ Len(locations[r]) > 2
    /\ ~HasBase(locations[r])
    /\ result' = [result EXCEPT ![r] = <<Degenerate(locations[r])>>]
    /\ pc' = [pc EXCEPT ![r] = "returned"]
    /\ UNCHANGED <<inputVars, nnVars, error, optVars, costVars, mapsVars, appVars, routeVars>>

\* no base: throw new Error('Base location not found')
OptimizeRouteThrow(r) ==
    /\ pc[r] = "idle"
    /\ Len(locations[r]) > 2
    /\ ~HasBase(locations[r])
    /\ error' = [error EXCEPT ![r] = "Base location not found"]
    /\ pc' = [pc EXCEPT ![r] = "threw"]
    /\ UNCHANGED <<inputVars, nnVars, result, optVars, costVars, mapsVars, appVars, routeVars>>

\* entry of nearestNeighborTSP(baseLocation, deliveryLocations, distanceMatrix)
OptimizeRouteStart(r) ==
    /\ pc[r] = "idle"
    /\ Len(locations[r]) > 2
    /\ HasBase(locations[r])
    /\ LET baseLocation == FindBase(locations[r])
           deliveryLocations == FilterDeliveries(locations[r])
       IN /\ deliveries' = [deliveries EXCEPT ![r] = deliveryLocations]
          /\ unvisited' = [unvisited EXCEPT ![r] = deliveryLocations]
          /\ route' = [route EXCEPT ![r] = <<baseLocation.id>>]
          /\ current' = [current EXCEPT ![r] = <<baseLocation>>]
    /\ pc' = [pc EXCEPT ![r] = "nn"]
    /\ UNCHANGED <<inputVars, result, error, optVars, costVars, mapsVars, appVars, routeVars>>

\* route kept in one array for all invocations: the stop is appended to
\* the tour as this invocation knows it, and every invocation sees the result
NearestNeighborStepShared(r) ==
    /\ pc[r] = "nn"
    /\ Len(unvisited[r]) > 0
    /\ LET nearestIndex == NearestIndex(current[r][1].id, unvisited[r], distanceMatrix[r])
           nearest == At(unvisited[r], nearestIndex)
       IN /\ unvisited' = [unvisited EXCEPT ![r] = Splice(unvisited[r], nearestIndex)]
          /\ route' = [q \in Runs |-> IF q = r \/ pc[q] = "nn"
                                      THEN Append(route[r], nearest.id) ELSE route[q]]
          /\ current' = [current EXCEPT ![r] = <<nearest>>]
    /\ UNCHANGED <<inputVars, pc, deliveries, result, error, optVars, costVars, mapsVars, appVars, routeVars>>

\* unvisited = deliveries, without the copy: the splice removes the stop
\* from the caller's list too
NearestNeighborStepAliased(r) ==
    /\ pc[r] = "nn"
    /\ Len(unvisited[r]) > 0
    /\ LET nearestIndex == NearestIndex(current[r][1].id, unvisited[r], distanceMatrix[r])
           nearest == At(unvisited[r], nearestIndex)
       IN /\ unvisited' = [unvisited EXCEPT ![r] = Splice(unvisited[r], nearestIndex)]
          /\ deliveries' = [deliveries EXCEPT ![r] = Splice(unvisited[r], nearestIndex)]
          /\ route' = [route EXCEPT ![r] = Append(route[r], nearest.id)]
          /\ current' = [current EXCEPT ![r] = <<nearest>>]
    /\ UNCHANGED <<inputVars, pc, result, error, optVars, costVars, mapsVars, appVars, routeVars>>

\* one iteration of the while loop of nearestNeighborTSP
NearestNeighborStep(r) ==
    /\ pc[r] = "nn"
    /\ Len(unvisited[r]) > 0
    /\ LET nearestIndex == NearestIndex(current[r][1].id, unvisited[r], distanceMatrix[r])
           nearest == At(unvisited[r], nearestIndex)
       IN /\ unvisited' = [unvisited EXCEPT ![r] = Splice(unvisited[r], nearestIndex)]
          /\ route' = [route EXCEPT ![r] = Append(route[r], nearest.id)]
          /\ current' = [current EXCEPT ![r] = <<nearest>>]
    /\ UNCHANGED <<inputVars, pc, deliveries, result, error, optVars, costVars, mapsVars, appVars, routeVars>>

\* the tour returned without route.push(base.id)
NearestNeighborReturnOpen(r) ==
    /\ pc[r] = "nn"
    /\ Len(unvisited[r]) = 0
    /\ LET optimizedOrder == route[r]
           totals == calculateRouteTotals(optimizedOrder, distanceMatrix[r])
       IN /\ route' = [route EXCEPT ![r] = optimizedOrder]
          /\ result' = [result EXCEPT ![r] =
                          <<[order |-> optimizedOrder,
                             totalDistance |-> totals.totalDistance,
                             totalTime |-> totals.totalTime,
                             totalCost |-> totals.totalCost]>>]
    /\ pc' = [pc EXCEPT ![r] = "returned"]
    /\ UNCHANGED <<inputVars, deliveries, unvisited, current, error, optVars, costVars, mapsVars, appVars, routeVars>>

\* the tour of the constructor passed through optimize2Opt before the totals
NearestNeighborReturnRefined(r) ==
    /\ pc[r] = "nn"
    /\ Len(unvisited[r]) = 0
    /\ LET optimizedOrder ==
               optimize2Opt(Append(route[r], FindBase(locations[r]).id), distanceMatrix[r])
           totals == calculateRouteTotals(optimizedOrder, distanceMatrix[r])
       IN /\ route' = [route EXCEPT ![r] = optimizedOrder]
          /\ result' = [result EXCEPT ![r] =
                          <<[order |-> optimizedOrder,
                             totalDistance |-> totals.totalDistance,
                             totalTime |-> totals.totalTime,
                             totalCost |-> totals.totalCost]>>]
    /\ pc' = [pc EXCEPT ![r] = "returned"]
    /\ UNCHANGED <<inputVars, deliveries, unvisited, current, error, optVars, costVars, mapsVars, appVars, routeVars>>

\* the loop is over: return to base, compute the totals, return the result
NearestNeighborReturn(r) ==
    /\ pc[r] = "nn"
    /\ Len(unvisited[r]) = 0
    /\ LET optimizedOrder == Append(route[r], FindBase(locations[r]).id)
           totals == calculateRouteTotals(optimizedOrder, distanceMatrix[r])
       IN /\ route' = [route EXCEPT ![r] = optimizedOrder]
          /\ result' = [result EXCEPT ![r] =
                          <<[order |-> optimizedOrder,
                             totalDistance |-> totals.totalDistance,
                             totalTime |-> totals.totalTime,
                             totalCost |-> totals.totalCost]>>]
    /\ pc' = [pc EXCEPT ![r] = "returned"]
    /\ UNCHANGED <<inputVars, deliveries, unvisited, current, error, optVars, costVars, mapsVars, appVars, routeVars>>

OptimizeRoute(r) ==
    \/ OptimizeRouteDegenerate(r)
    \/ OptimizeRouteThrow(r)
    \/ OptimizeRouteStart(r)
    \/ NearestNeighborStep(r)
    \/ NearestNeighborReturn(r)

----------------------------------------------------------------------------
(* optimize2Opt *)

\* entry of optimize2Opt(tour, matrix), up to the first test of the while loop
Enter2Opt(r, tour) ==
    /\ tourIn' = [tourIn EXCEPT ![r] = tour]
    /\ improved' = [improved EXCEPT ![r] = TRUE]
    /\ bestRoute' = [bestRoute EXCEPT ![r] = tour]
    /\ bestCost' = [bestCost EXCEPT ![r] = calculateRouteCost(tour, distanceMatrix[r])]
    /\ iIdx' = [iIdx EXCEPT ![r] = 0]
    /\ jIdx' = [jIdx EXCEPT ![r] = 0]
    /\ tourOut' = [tourOut EXCEPT ![r] = <<>>]
    /\ calls' = [calls EXCEPT ![r] = calls[r] + 1]
    /\ pc' = [pc EXCEPT ![r] = "while"]

\* a caller refines a tour of its own
Optimize2Opt(r) ==
    /\ pc[r] = "idle"
    /\ calls[r] = 0
    /\ Enter2Opt(r, tourIn[r])
    /\ UNCHANGED <<inputVars, nnVars, result, error, prevOut, costVars, mapsVars, appVars, routeVars>>

\* a caller refines the order optimizeRoute returned
RefineResult(r) ==
    /\ pc[r] = "returned"
    /\ calls[r] = 0
    /\ Enter2Opt(r, result[r][1].order)
    /\ UNCHANGED <<inputVars, nnVars, result, error, prevOut, costVars, mapsVars, appVars, routeVars>>

\* a caller refines the tour optimize2Opt returned, with the same matrix
Optimize2OptAgain(r) ==
    /\ pc[r] = "refined"
    /\ calls[r] = 1
    /\ Enter2Opt(r, tourOut[r][1])
    /\ prevOut' = [prevOut EXCEPT ![r] = tourOut[r]]
    /\ UNCHANGED <<inputVars, nnVars, result, error, costVars, mapsVars, appVars, routeVars>>

\* while (improved) { improved = false; for (let i = 1; i < route.length - 2; ...
WhileEnter(r) ==
    /\ pc[r] = "while"
    /\ improved[r]
    /\ improved' = [improved EXCEPT ![r] = FALSE]
    /\ iIdx' = [iIdx EXCEPT ![r] = 1]
    /\ IF 1 < Len(tourIn[r]) - 2
       THEN /\ jIdx' = [jIdx EXCEPT ![r] = 2]
            /\ pc' = [pc EXCEPT ![r] = "for"]
       ELSE UNCHANGED <<jIdx, pc>>
    /\ UNCHANGED <<inputVars, nnVars, result, error, tourIn, bestRoute, bestCost,
                   tourOut, calls, prevOut, costVars, mapsVars, appVars, routeVars>>

\* while (improved) fails: return bestRoute
WhileExit(r) ==
    /\ pc[r] = "while"
    /\ ~improved[r]
    /\ tourOut' = [tourOut EXCEPT ![r] = <<bestRoute[r]>>]
    /\ pc' = [pc EXCEPT ![r] = "refined"]
    /\ UNCHANGED <<inputVars, nnVars, result, error, tourIn, improved, bestRoute,
                   bestCost, iIdx, jIdx, calls, prevOut, costVars, mapsVars, appVars, routeVars>>

\* the inner loop stopped one position early: j < route.length - 2
ForAdvanceShort(r) ==
    IF jIdx[r] + 1 < Len(tourIn[r]) - 2
    THEN /\ jIdx' = [jIdx EXCEPT ![r] = jIdx[r] + 1]
         /\ UNCHANGED <<iIdx, pc>>
    ELSE /\ iIdx' = [iIdx EXCEPT ![r] = iIdx[r] + 1]
         /\ IF iIdx[r] + 1 < Len(tourIn[r]) - 2
            THEN /\ jIdx' = [jIdx EXCEPT ![r] = iIdx[r] + 2]
                 /\ UNCHANGED pc
            ELSE /\ UNCHANGED jIdx
                 /\ pc' = [pc EXCEPT ![r] = "while"]

\* j++, then i++ when the inner loop is over, then the while test
ForAdvance(r) ==
    IF jIdx[r] + 1 < Len(tourIn[r]) - 1
    THEN /\ jIdx' = [jIdx EXCEPT ![r] = jIdx[r] + 1]
         /\ UNCHANGED <<iIdx, pc>>
    ELSE /\ iIdx' = [iIdx EXCEPT ![r] = iIdx[r] + 1]
         /\ IF iIdx[r] + 1 < Len(tourIn[r]) - 2
            THEN /\ jIdx' = [jIdx EXCEPT ![r] = iIdx[r] + 2]
                 /\ UNCHANGED pc
            ELSE /\ UNCHANGED jIdx
                 /\ pc' = [pc EXCEPT ![r] = "while"]

NewRoute(r) == swap2Opt(bestRoute[r], iIdx[r], jIdx[r])

NewCost(r) == calculateRouteCost(NewRoute(r), distanceMatrix[r])

\* the comparison turned round: a strictly dearer candidate is accepted
AcceptDearer(r) ==
    /\ pc[r] = "for"
    /\ Less(bestCost[r], NewCost(r))
    /\ bestRoute' = [bestRoute EXCEPT ![r] = NewRoute(r)]
    /\ bestCost' = [bestCost EXCEPT ![r] = NewCost(r)]
    /\ improved' = [improved EXCEPT ![r] = TRUE]
    /\ ForAdvance(r)
    /\ UNCHANGED <<inputVars, nnVars, result, error, tourIn, tourOut, calls,
                   prevOut, costVars, mapsVars, appVars, routeVars>>

\* the move accepted without improved = true: a single pass is made
AcceptNoFlag(r) ==
    /\ pc[r] = "for"
    /\ Less(NewCost(r), bestCost[r])
    /\ bestRoute' = [bestRoute EXCEPT ![r] = NewRoute(r)]
    /\ bestCost' = [bestCost EXCEPT ![r] = NewCost(r)]
    /\ ForAdvance(r)
    /\ UNCHANGED <<inputVars, nnVars, result, error, tourIn, improved, tourOut,
                   calls, prevOut, costVars, mapsVars, appVars, routeVars>>

\* the comparison made with <=: a candidate of equal cost is accepted too
AcceptTies(r) ==
    /\ pc[r] = "for"
    /\ LessEq(NewCost(r), bestCost[r])
    /\ bestRoute' = [bestRoute EXCEPT ![r] = NewRoute(r)]
    /\ bestCost' = [bestCost EXCEPT ![r] = NewCost(r)]
    /\ improved' = [improved EXCEPT ![r] = TRUE]
    /\ ForAdvance(r)
    /\ UNCHANGED <<inputVars, nnVars, result, error, tourIn, tourOut, calls,
                   prevOut, costVars, mapsVars, appVars, routeVars>>

\* the pass given up at the first accepted move: the scan starts again
AcceptAndRestart(r) ==
    /\ pc[r] = "for"
    /\ Less(NewCost(r), bestCost[r])
    /\ bestRoute' = [bestRoute EXCEPT ![r] = NewRoute(r)]
    /\ bestCost' = [bestCost EXCEPT ![r] = NewCost(r)]
    /\ improved' = [improved EXCEPT ![r] = TRUE]
    /\ pc' = [pc EXCEPT ![r] = "while"]
    /\ UNCHANGED <<inputVars, nnVars, result, error, tourIn, iIdx, jIdx, tourOut,
                   calls, prevOut, costVars, mapsVars, appVars, routeVars>>

\* the candidate is strictly cheaper: it becomes bestRoute
AcceptMove(r) ==
    /\ pc[r] = "for"
    /\ Less(NewCost(r), bestCost[r])
    /\ bestRoute' = [bestRoute EXCEPT ![r] = NewRoute(r)]
    /\ bestCost' = [bestCost EXCEPT ![r] = NewCost(r)]
    /\ improved' = [improved EXCEPT ![r] = TRUE]
    /\ ForAdvance(r)
    /\ UNCHANGED <<inputVars, nnVars, result, error, tourIn, tourOut, calls,
                   prevOut, costVars, mapsVars, appVars, routeVars>>

\* the candidate is not strictly cheaper
RejectMove(r) ==
    /\ pc[r] = "for"
    /\ ~Less(NewCost(r), bestCost[r])
    /\ ForAdvance(r)
    /\ UNCHANGED <<inputVars, nnVars, result, error, tourIn, improved, bestRoute,
                   bestCost, tourOut, calls, prevOut, costVars, mapsVars, appVars, routeVars>>

Refine(r) ==
    \/ WhileEnter(r)
    \/ WhileExit(r)
    \/ AcceptMove(r)
    \/ RejectMove(r)

----------------------------------------------------------------------------
(* The operations as functions of their arguments: what a call returns when
   nothing else runs *)

RECURSIVE NearestNeighborLoop(_, _, _, _)
NearestNeighborLoop(currentId, unv, rt, matrix) ==
    IF Len(unv) > 0
    THEN LET nearestIndex == NearestIndex(currentId, unv, matrix)
             nearest == At(unv, nearestIndex)
         IN NearestNeighborLoop(nearest.id, Splice(unv, nearestIndex),
                                Append(rt, nearest.id), matrix)
    ELSE rt

nearestNeighborTSP(base, dels, matrix) ==
    Append(NearestNeighborLoop(base.id, dels, <<base.id>>, matrix), base.id)

\* <<>> when optimizeRoute throws, <<result>> otherwise
optimizeRoute(locs, matrix) ==
    IF Len(locs) <= 2 THEN <<Degenerate(locs)>>
    ELSE IF ~HasBase(locs) THEN <<>>
    ELSE LET optimizedOrder ==
                 nearestNeighborTSP(FindBase(locs), FilterDeliveries(locs), matrix)
             totals == calculateRouteTotals(optimizedOrder, matrix)
         IN <<[order |-> optimizedOrder,
               totalDistance |-> totals.totalDistance,
               totalTime |-> totals.totalTime,
               totalCost |-> totals.totalCost]>>

----------------------------------------------------------------------------
(* Specifications *)

\* optimizeRoute on a stop list and a matrix, then refinement of its result
Next ==
    \/ OptimizeRoute(1)
    \/ RefineResult(1)
    \/ Refine(1)

Spec == Init /\ [][Next]_vars

\* optimize2Opt on a tour and a matrix, then again on its own result; the
\* unavailable entries of these matrices are absent ones
Init2Opt ==
    /\ InitLocals
    /\ locations = Everywhere(<<>>)
    /\ \E m \in 0..MaxInterior :
         \E tour \in TourShapes(m) \cup (IF m = 0 THEN {<<>>, <<StopIds[1]>>} ELSE {}),
            mx \in Matrices(m + 1, {"absent", "high"}) :
            /\ tourIn = [r \in Runs |-> IF r = 1 THEN tour ELSE <<>>]
            /\ distanceMatrix = [r \in Runs |-> IF r = 1 THEN mx ELSE EmptyMatrix]

Next2Opt ==
    \/ Optimize2Opt(1)
    \/ Optimize2OptAgain(1)
    \/ Refine(1)

Spec2Opt == Init2Opt /\ [][Next2Opt]_vars

\* two callers, each calling optimizeRoute on the same stop list and matrix;
\* the unavailable entries of these matrices are entries that are not OK
InitPair ==
    /\ InitLocals
    /\ \E n \in 0..MaxStops :
         \E locs \in StopLists(n), m \in Matrices(n, {"notok", "high"}) :
            /\ locations = Everywhere(locs)
            /\ distanceMatrix = Everywhere(m)
    /\ tourIn = Everywhere(<<>>)

NextPair == \E r \in Runs : OptimizeRoute(r)

SpecPair == InitPair /\ [][NextPair]_vars

\* optimizeRoute on stop lists of up to one stop more, over matrices whose
\* entries are all available, then refinement of its result
InitLong ==
    /\ InitLocals
    /\ \E n \in 0..(MaxStops + 1) :
         \E locs \in StopLists(n), m \in Matrices(n, {"high"}) :
            /\ locations = [r \in Runs |-> IF r = 1 THEN locs ELSE <<>>]
            /\ distanceMatrix = [r \in Runs |-> IF r = 1 THEN m ELSE EmptyMatrix]
    /\ tourIn = Everywhere(<<>>)

SpecLong == InitLong /\ [][Next]_vars

\* one call, of optimizeRoute on a stop list or of optimize2Opt on a tour,
\* with the loops of the constructor and of the refiner running on: the code
\* is sequential, a loop that can take its next step takes it.  The
\* unavailable entries are entries that are not OK for the stop lists and
\* absent ones for the tours, one fewer of them than elsewhere.
InitLive ==
    /\ InitLocals
    /\ \/ \E n \in 0..MaxStops :
            \E locs \in StopLists(n), m \in MatricesWith(n, {"notok"}, MaxSpecial - 1) :
               /\ locations = [r \in Runs |-> IF r = 1 THEN locs ELSE <<>>]
               /\ distanceMatrix = [r \in Runs |-> IF r = 1 THEN m ELSE EmptyMatrix]
               /\ tourIn = Everywhere(<<>>)
       \/ \E m \in 1..MaxInterior :
            \E tour \in TourShapes(m), mx \in MatricesWith(m + 1, {"absent"}, MaxSpecial - 1) :
               /\ locations = Everywhere(<<>>)
               /\ tourIn = [r \in Runs |-> IF r = 1 THEN tour ELSE <<>>]
               /\ distanceMatrix = [r \in Runs |-> IF r = 1 THEN mx ELSE EmptyMatrix]

NextLive ==
    \/ OptimizeRoute(1)
    \/ Optimize2Opt(1)
    \/ Refine(1)

SpecLive ==
    /\ InitLive
    /\ [][NextLive]_vars
    /\ WF_vars(NearestNeighborStep(1) \/ NearestNeighborReturn(1))
    /\ WF_vars(Refine(1))

\* two callers, each with a stop list and a matrix of its own, each calling
\* optimizeRoute and then optimize2Opt on the order it got, their steps
\* interleaved; the second caller's list has the flags moved one stop on and
\* its matrix is the transposed one
InitOwn ==
    /\ InitLocals
    /\ \E n \in 0..MaxStops :
         \E locs \in StopLists(n), m \in MatricesWith(n, {"high"}, MaxSpecial - 1) :
            /\ locations = [r \in Runs |-> IF r = 1 THEN locs ELSE FlagsMoved(locs)]
            /\ distanceMatrix = [r \in Runs |-> IF r = 1 THEN m ELSE Transposed(m)]
    /\ tourIn = Everywhere(<<>>)

NextOwn == \E r \in Runs : OptimizeRoute(r) \/ RefineResult(r) \/ Refine(r)

SpecOwn == InitOwn /\ [][NextOwn]_vars

----------------------------------------------------------------------------
(* The cost model alone *)

CalculateCostCall(fromId, toId) ==
    /\ costArgs' = <<fromId, toId>>
    /\ costOut' = <<calculateCost(fromId, toId, distanceMatrix[1])>>
    /\ UNCHANGED <<inputVars, pc, nnVars, result, error, optVars, mapsVars, appVars, routeVars>>

InitCost ==
    /\ InitLocals
    /\ locations = Everywhere(<<>>)
    /\ tourIn = Everywhere(<<>>)
    /\ \E m \in CostMatrices :
         distanceMatrix = [r \in Runs |-> IF r = 1 THEN m ELSE EmptyMatrix]

NextCost == \E fromId \in IdsUpTo(3), toId \in IdsUpTo(3) : CalculateCostCall(fromId, toId)

SpecCost == InitCost /\ [][NextCost]_vars

----------------------------------------------------------------------------
(* GoogleMapsService.getDistanceMatrix.  The answer of the Distance Matrix
   service is the environment's: any status, and with status OK any response
   of the family below.  Math.random is a choice between the two ends of
   the range of simulateDistanceBetween. *)

\* the pairs of different ids of a list
OtherPairs(locs) ==
    {p \in {locs[k].id : k \in 1..Len(locs)} \X {locs[k].id : k \in 1..Len(locs)} :
        p[1] # p[2]}

\* what simulateDistanceBetween can return for two different locations
SimulatedRolls == {Element(2000, 346, "OK"), Element(22000, 10560, "OK")}

simulateDistanceBetween(fromId, toId, rolls) ==
    IF fromId = toId THEN Zero ELSE rolls[<<fromId, toId>>]

simulateDistanceMatrix(locs, rolls) ==
    [f \in {locs[k].id : k \in 1..Len(locs)} |->
        [t \in {locs[k].id : k \in 1..Len(locs)} |-> simulateDistanceBetween(f, t, rolls)]]

\* elements of a response: <<>> is an element that is not there
RealOk == <<[status |-> "OK", distance |-> <<[value |-> 1000]>>, duration |-> <<[value |-> 60]>>]>>

RealIncomplete == <<[status |-> "OK", distance |-> <<>>, duration |-> <<[value |-> 60]>>]>>

RealNotOk == <<[status |-> "NOT_FOUND", distance |-> <<>>, duration |-> <<>>]>>

ResponseKinds == {"missing", "notok", "incomplete"}

\* the response for n origins and n destinations whose elements are
\* complete OK ones, except those of sp
ResponseOf(n, sp) ==
    [rows |-> [o \in 1..n |->
        [elements |-> [d \in 1..n |->
            IF <<o, d>> \notin DOMAIN sp THEN RealOk
            ELSE IF sp[<<o, d>>] = "missing" THEN <<>>
            ELSE IF sp[<<o, d>>] = "notok" THEN RealNotOk
            ELSE RealIncomplete]]]]

\* the responses with at most MaxSpecial such elements, and the response
\* without rows
Responses(n) ==
    {ResponseOf(n, sp) :
        sp \in UNION {[S -> ResponseKinds] : S \in SubsetsUpTo((1..n) \X (1..n), MaxSpecial)}}
    \cup {[rows |-> <<>>]}

\* response.rows[originIndex]?.elements[destIndex]
ResponseElement(response, originIndex, destIndex) ==
    IF originIndex + 1 \notin DOMAIN response.rows THEN <<>>
    ELSE LET row == At(response.rows, originIndex)
         IN IF destIndex + 1 \notin DOMAIN row.elements THEN <<>>
            ELSE At(row.elements, destIndex)

\* the element is there with status OK, distance and duration
UsableElement(element) ==
    /\ element # <<>>
    /\ element[1].status = "OK"
    /\ element[1].distance # <<>>
    /\ element[1].duration # <<>>

\* the pairs of different ids the callback has to simulate
SimulatedPairs(locs, response) ==
    {p \in OtherPairs(locs) :
        \E o, d \in 0..(Len(locs) - 1) :
            /\ p = <<At(locs, o).id, At(locs, d).id>>
            /\ ~UsableElement(ResponseElement(response, o, d))}

\* the matrix the callback builds from a response with status OK
ProcessResponse(locs, response, rolls) ==
    [f \in {locs[k].id : k \in 1..Len(locs)} |->
        [t \in {locs[k].id : k \in 1..Len(locs)} |->
            LET o == CHOOSE k \in 0..(Len(locs) - 1) : At(locs, k).id = f
                d == CHOOSE k \in 0..(Len(locs) - 1) : At(locs, k).id = t
                element == ResponseElement(response, o, d)
            IN IF UsableElement(element)
               THEN Element(element[1].distance[1].value, element[1].duration[1].value, "OK")
               ELSE simulateDistanceBetween(f, t, rolls)]]

\* if (locations.length === 0) return {}
GetDistanceMatrixEmpty ==
    /\ dmPc = "idle"
    /\ Len(locations[1]) = 0
    /\ dmResult' = <<EmptyMatrix>>
    /\ dmPc' = "resolved"
    /\ UNCHANGED <<inputVars, pc, nnVars, result, error, optVars, costVars,
                   apiKeyConfigured, googleLoaded, realOutcome,
                   appVars, routeVars>>

\* the key is not configured: return this.simulateDistanceMatrix(locations)
GetDistanceMatrixNoKey ==
    /\ dmPc = "idle"
    /\ Len(locations[1]) > 0
    /\ ~apiKeyConfigured
    /\ \E rolls \in [OtherPairs(locations[1]) -> SimulatedRolls] :
          dmResult' = <<simulateDistanceMatrix(locations[1], rolls)>>
    /\ dmPc' = "resolved"
    /\ UNCHANGED <<inputVars, pc, nnVars, result, error, optVars, costVars,
                   apiKeyConfigured, googleLoaded, realOutcome,
                   appVars, routeVars>>

\* getRealDistanceMatrix up to the request: initializeServices throws when
\* the API is not loaded, and the promise is rejected
GetRealDistanceMatrix ==
    /\ dmPc = "idle"
    /\ Len(locations[1]) > 0
    /\ apiKeyConfigured
    /\ IF googleLoaded
       THEN /\ dmPc' = "requested"
            /\ UNCHANGED realOutcome
       ELSE /\ dmPc' = "awaiting"
            /\ realOutcome' = <<"rejected">>
    /\ UNCHANGED <<inputVars, pc, nnVars, result, error, optVars, costVars,
                   apiKeyConfigured, googleLoaded, dmResult,
                   appVars, routeVars>>

\* the callback of distanceMatrixService.getDistanceMatrix; response is <<>>
\* (null) or <<response>>
DistanceMatrixCallback(status, response) ==
    /\ dmPc = "requested"
    /\ IF status = "OK" /\ response # <<>>
       THEN \E rolls \in [SimulatedPairs(locations[1], response[1]) -> SimulatedRolls] :
               realOutcome' = <<"resolved", ProcessResponse(locations[1], response[1], rolls)>>
       ELSE realOutcome' = <<"rejected">>
    /\ dmPc' = "awaiting"
    /\ UNCHANGED <<inputVars, pc, nnVars, result, error, optVars, costVars,
                   apiKeyConfigured, googleLoaded, dmResult,
                   appVars, routeVars>>

\* the rejection not caught: getDistanceMatrix fails with it
GetDistanceMatrixSettleNoCatch ==
    /\ dmPc = "awaiting"
    /\ IF realOutcome[1] = "resolved"
       THEN /\ dmResult' = <<realOutcome[2]>>
            /\ dmPc' = "resolved"
       ELSE /\ UNCHANGED dmResult
            /\ dmPc' = "failed"
    /\ UNCHANGED <<inputVars, pc, nnVars, result, error, optVars, costVars,
                   apiKeyConfigured, googleLoaded, realOutcome,
                   appVars, routeVars>>

\* return await this.getRealDistanceMatrix(locations), and the catch
GetDistanceMatrixSettle ==
    /\ dmPc = "awaiting"
    /\ IF realOutcome[1] = "resolved"
       THEN dmResult' = <<realOutcome[2]>>
       ELSE \E rolls \in [OtherPairs(locations[1]) -> SimulatedRolls] :
               dmResult' = <<simulateDistanceMatrix(locations[1], rolls)>>
    /\ dmPc' = "resolved"
    /\ UNCHANGED <<inputVars, pc, nnVars, result, error, optVars, costVars,
                   apiKeyConfigured, googleLoaded, realOutcome,
                   appVars, routeVars>>

CallbackStatuses == {"OK", "REQUEST_DENIED", "OVER_QUERY_LIMIT", "UNKNOWN_ERROR"}

\* the service answers the pending request: any status, any response
DistanceMatrixAnswer ==
    /\ dmPc = "requested"
    /\ \E status \in CallbackStatuses,
          response \in {<<>>} \cup {<<rs>> : rs \in Responses(Len(locations[1]))} :
            DistanceMatrixCallback(status, response)

\* a list of n locations; the flags play no part here
InitMaps ==
    /\ InitCallers
    /\ InitMapsIdle
    /\ InitAppIdle
    /\ apiKeyConfigured \in BOOLEAN
    /\ googleLoaded \in BOOLEAN
    /\ \E n \in 0..MaxStops :
          locations = [r \in Runs |->
                          IF r = 1 THEN [k \in 1..n |-> [id |-> StopIds[k], isBase |-> k = 1]]
                          ELSE <<>>]
    /\ distanceMatrix = Everywhere(EmptyMatrix)
    /\ tourIn = Everywhere(<<>>)

NextMaps ==
    \/ GetDistanceMatrixEmpty
    \/ GetDistanceMatrixNoKey
    \/ GetRealDistanceMatrix
    \/ DistanceMatrixAnswer
    \/ GetDistanceMatrixSettle

SpecMaps == InitMaps /\ [][NextMaps]_vars

----------------------------------------------------------------------------
(* GoogleMapsService.getOptimizedRoute.  The answer of the Directions
   service is the environment's: any status, and with status OK a result
   without a route or with one route whose waypoint_order is a permutation
   of the indices of the waypoints sent.  The result is held with
   totalDistance in metres and totalTime in seconds; Math.random is a
   choice between two rolls. *)

\* the orders of the indices 0..d-1
WaypointOrders(d) ==
    {w \in [1..d -> 0..(d - 1)] : \A a, b \in 1..d : a # b => w[a] # w[b]}

\* a leg of a route; <<>> is a distance or a duration that is not there
Leg(distance, duration) == [distance |-> distance, duration |-> duration]

\* the legs of a route through d waypoints: all of 1000 m and 60 s, or the
\* first without distance and duration
DirectionsLegs(d) ==
    {[k \in 1..(d + 1) |-> Leg(<<[value |-> 1000]>>, <<[value |-> 60]>>)],
     [k \in 1..(d + 1) |-> IF k = 1 THEN Leg(<<>>, <<>>)
                           ELSE Leg(<<[value |-> 1000]>>, <<[value |-> 60]>>)]}

\* what the callback can be given as result: null, no route, one route
DirectionsResults(d) ==
    {<<>>, <<[routes |-> <<>>]>>}
    \cup {<<[routes |-> <<[waypoint_order |-> w, legs |-> l]>>]>> :
            w \in WaypointOrders(d), l \in DirectionsLegs(d)}

DirectionsStatuses == {"OK", "REQUEST_DENIED", "ZERO_RESULTS"}

\* the two values of Math.random() * 10 and Math.random() * 20 taken
FallbackRolls == {<<0, 0>>, <<9, 19>>}

\* <<>> is null
getFallbackOptimizedRoute(locs, roll) ==
    IF ~HasBase(locs) THEN <<>>
    ELSE LET baseLocation == FindBase(locs)
             deliveryLocations == FilterDeliveries(locs)
         IN <<[optimizedOrder |->
                   <<baseLocation.id>> \o MapIds(deliveryLocations) \o <<baseLocation.id>>,
               totalDistance |-> (Len(deliveryLocations) * 8 + roll[1]) * MetresPerKm,
               totalTime |-> (Len(deliveryLocations) * 15 + roll[2]) * SecondsPerMin]>>

\* route.legs.forEach(leg => { totalDistance += leg.distance?.value || 0; ... })
RECURSIVE SumLegs(_, _, _)
SumLegs(legs, k, acc) ==
    IF k < Len(legs)
    THEN LET leg == At(legs, k)
         IN SumLegs(legs, k + 1,
                [totalDistance |-> acc.totalDistance
                     + (IF leg.distance = <<>> THEN 0 ELSE leg.distance[1].value),
                 totalTime |-> acc.totalTime
                     + (IF leg.duration = <<>> THEN 0 ELSE leg.duration[1].value)])
    ELSE acc

\* the body of getOptimizedRoute up to the request sent to the Directions
\* service, or to its return when no request is sent
GetOptimizedRoute ==
    /\ orPc = "called"
    /\ LET locs == locations[1]
       IN IF Len(locs) < 3
          THEN /\ orResult' = <<>>
               /\ orPc' = "settled"
          ELSE IF ~apiKeyConfigured
          THEN /\ \E roll \in FallbackRolls :
                     orResult' = getFallbackOptimizedRoute(locs, roll)
               /\ orPc' = "settled"
          ELSE IF ~HasBase(locs)
          THEN /\ orResult' = <<>>
               /\ orPc' = "settled"
          ELSE IF ~googleLoaded
          THEN /\ \E roll \in FallbackRolls :
                     orResult' = getFallbackOptimizedRoute(locs, roll)
               /\ orPc' = "settled"
          ELSE /\ orPc' = "requested"
               /\ UNCHANGED orResult
    /\ UNCHANGED <<inputVars, pc, nnVars, result, error, optVars, costVars, mapsVars,
                   appVars, orAnswer>>

\* the callback that resolves with null where the code falls back
DirectionsCallbackNoFallback(status, res) ==
    /\ orPc = "requested"
    /\ LET locs == locations[1]
           baseLocation == FindBase(locs)
           deliveryLocations == FilterDeliveries(locs)
       IN IF status = "OK" /\ res # <<>> /\ res[1].routes # <<>>
          THEN LET rt == At(res[1].routes, 0)
                   optimizedDeliveries ==
                       [k \in 1..Len(rt.waypoint_order) |->
                           At(deliveryLocations, rt.waypoint_order[k])]
                   totals == SumLegs(rt.legs, 0, [totalDistance |-> 0, totalTime |-> 0])
               IN orResult' = <<[optimizedOrder |->
                                    <<baseLocation.id>> \o MapIds(optimizedDeliveries)
                                        \o <<baseLocation.id>>,
                                 totalDistance |-> totals.totalDistance,
                                 totalTime |-> totals.totalTime]>>
          ELSE orResult' = <<>>
    /\ orAnswer' = <<status, res>>
    /\ orPc' = "settled"
    /\ UNCHANGED <<inputVars, pc, nnVars, result, error, optVars, costVars, mapsVars,
                   appVars>>

\* the callback given to directionsService.route; res is <<>> (null) or
\* <<result>>
DirectionsCallback(status, res) ==
    /\ orPc = "requested"
    /\ LET locs == locations[1]
           baseLocation == FindBase(locs)
           deliveryLocations == FilterDeliveries(locs)
       IN IF status = "OK" /\ res # <<>>
          THEN IF res[1].routes = <<>>
               THEN orResult' = <<>>
               ELSE LET rt == At(res[1].routes, 0)
                        optimizedDeliveries ==
                            [k \in 1..Len(rt.waypoint_order) |->
                                At(deliveryLocations, rt.waypoint_order[k])]
                        totals == SumLegs(rt.legs, 0, [totalDistance |-> 0, totalTime |-> 0])
                    IN orResult' = <<[optimizedOrder |->
                                         <<baseLocation.id>> \o MapIds(optimizedDeliveries)
                                             \o <<baseLocation.id>>,
                                      totalDistance |-> totals.totalDistance,
                                      totalTime |-> totals.totalTime]>>
          ELSE \E roll \in FallbackRolls :
                  orResult' = getFallbackOptimizedRoute(locs, roll)
    /\ orAnswer' = <<status, res>>
    /\ orPc' = "settled"
    /\ UNCHANGED <<inputVars, pc, nnVars, result, error, optVars, costVars, mapsVars,
                   appVars>>

\* the service answers the pending request
DirectionsAnswer ==
    /\ orPc = "requested"
    /\ \E status \in DirectionsStatuses,
          res \in DirectionsResults(Len(FilterDeliveries(locations[1]))) :
            DirectionsCallback(status, res)

\* getOptimizedRoute called with a list of n locations, any flags
InitRoute ==
    /\ InitCallers
    /\ InitMapsIdle
    /\ apiKeyConfigured \in BOOLEAN
    /\ googleLoaded \in BOOLEAN
    /\ appLocations = <<>>
    /\ appDistanceMatrix = EmptyMatrix
    /\ optimizedRoute = <<>>
    /\ isOptimizing = FALSE
    /\ appPc = "idle"
    /\ nextId = 1
    /\ orPc = "called"
    /\ orResult = <<>>
    /\ orAnswer = <<>>
    /\ \E n \in 0..MaxStops :
          \E locs \in StopLists(n) :
             locations = [r \in Runs |-> IF r = 1 THEN locs ELSE <<>>]
    /\ distanceMatrix = Everywhere(EmptyMatrix)
    /\ tourIn = Everywhere(<<>>)

NextRoute ==
    \/ GetOptimizedRoute
    \/ DirectionsAnswer

SpecRoute == InitRoute /\ [][NextRoute]_vars

----------------------------------------------------------------------------
(* The application (App.tsx) and the buttons of LocationForm that call its
   handlers.  A click is handled to its end, with the promise reactions it
   leaves ready, before the next event: the user and the Google Maps
   callbacks act only at the awaits that wait for the network.  Date.now()
   gives each added location the next id of StopIds.  The run of
   handleOptimizeRoute keeps the `locations` it was created with in
   locations[1], the argument of its calls to GoogleMapsService. *)

\* locations the user adds in all
MaxAdds == MaxStops + 1

\* what the handlers leave alone
serviceVars ==
    <<distanceMatrix, pc, nnVars, result, error, optVars, costVars, mapsVars>>

\* no promise reaction is ready to run: the next event is taken
EventLoopIdle ==
    /\ orPc # "called"
    /\ ~(appPc = "awaitRoute" /\ orPc = "settled")

\* a flagged location appended with the flagged ones left in the list
handleAddLocationAppend(prev, location) == Append(prev, location)

\* setLocations of handleAddLocation: the new list
handleAddLocation(prev, location) ==
    IF location.isBase
    THEN Append(FilterDeliveries(prev), location)
    ELSE Append(prev, location)

\* the button `Agregar Ubicacion`: a location with a new id, flagged or not;
\* the user adds MaxAdds locations at most and keeps the list within MaxStops
LocationFormAdd ==
    /\ EventLoopIdle
    /\ nextId <= MaxAdds
    /\ \E isBase \in BOOLEAN :
          LET new == handleAddLocation(appLocations,
                                       [id |-> StopIds[nextId], isBase |-> isBase])
          IN /\ Len(new) <= MaxStops
             /\ appLocations' = new
    /\ nextId' = nextId + 1
    /\ UNCHANGED <<locations, serviceVars, appDistanceMatrix, optimizedRoute,
                   isOptimizing, appPc, routeVars>>

\* prev.filter(l => l.id !== id)
RECURSIVE RemoveId(_, _)
RemoveId(prev, id) ==
    IF prev = <<>> THEN <<>>
    ELSE IF Head(prev).id # id THEN <<Head(prev)>> \o RemoveId(Tail(prev), id)
         ELSE RemoveId(Tail(prev), id)

handleRemoveLocation(id) ==
    /\ appLocations' = RemoveId(appLocations, id)
    /\ optimizedRoute' = <<>>
    /\ appDistanceMatrix' = EmptyMatrix

\* a button with the bin: the base shown or one of the deliveries
LocationFormRemove ==
    /\ EventLoopIdle
    /\ \E k \in 1..Len(appLocations) :
          /\ appLocations[k].isBase => appLocations[k] = FindBase(appLocations)
          /\ handleRemoveLocation(appLocations[k].id)
    /\ UNCHANGED <<locations, serviceVars, isOptimizing, appPc, nextId, routeVars>>

\* the button `Optimizar Ruta de Reparto`, shown with 3 locations or more
\* and a base, disabled while isOptimizing: handleOptimizeRoute up to its
\* call of getOptimizedRoute
HandleOptimizeRoute ==
    /\ appPc = "idle"
    /\ Len(appLocations) >= 3 /\ HasBase(appLocations)
    /\ ~isOptimizing
    /\ ~(Len(appLocations) < 3)
    /\ isOptimizing' = TRUE
    /\ locations' = [locations EXCEPT ![1] = appLocations]
    /\ orPc' = "called"
    /\ orResult' = <<>>
    /\ orAnswer' = <<>>
    /\ appPc' = "awaitRoute"
    /\ UNCHANGED <<serviceVars, appLocations, appDistanceMatrix, optimizedRoute, nextId>>

\* Math.random the same for every pair
UniformRolls(pairs) == {[p \in pairs |-> roll] : roll \in SimulatedRolls}

\* what getDistanceMatrix resolves with when it sends no request
SimulatedMatrices(locs) ==
    IF Len(locs) = 0 THEN {EmptyMatrix}
    ELSE {simulateDistanceMatrix(locs, rolls) : rolls \in UniformRolls(OtherPairs(locs))}

\* what getDistanceMatrix resolves with once the Distance Matrix service has
\* answered: the matrix of a complete response, or a simulated one
AnsweredMatrices(locs) ==
    {ProcessResponse(locs, ResponseOf(Len(locs), <<>>), <<>>)}
    \cup SimulatedMatrices(locs)

\* the run is over: finally { setIsOptimizing(false) }
RunOver ==
    /\ isOptimizing' = FALSE
    /\ appPc' = "idle"
    /\ orPc' = "idle"
    /\ orResult' = <<>>
    /\ orAnswer' = <<>>
    /\ locations' = [locations EXCEPT ![1] = <<>>]

\* setDistanceMatrix(matrix); setOptimizedRoute({...}); finally
SetResults(matrix) ==
    /\ appDistanceMatrix' = matrix
    /\ LET optimizationResult == orResult[1]
       IN optimizedRoute' =
              <<[order |-> optimizationResult.optimizedOrder,
                 totalDistance |-> optimizationResult.totalDistance,
                 totalTime |-> optimizationResult.totalTime,
                 totalCost |-> Finite(5 * SecondsPerMin * optimizationResult.totalDistance
                                      + MetresPerKm * optimizationResult.totalTime)]>>
    /\ RunOver

\* the failure path without finally: isOptimizing stays true
HandleOptimizeRouteContinueNoFinally ==
    /\ appPc = "awaitRoute"
    /\ orPc = "settled"
    /\ IF orResult = <<>>
       THEN /\ appPc' = "idle"
            /\ orPc' = "idle"
            /\ orResult' = <<>>
            /\ orAnswer' = <<>>
            /\ locations' = [locations EXCEPT ![1] = <<>>]
            /\ UNCHANGED <<isOptimizing, appDistanceMatrix, optimizedRoute>>
       ELSE IF apiKeyConfigured /\ googleLoaded
       THEN /\ appPc' = "awaitMatrix"
            /\ UNCHANGED <<locations, isOptimizing, appDistanceMatrix, optimizedRoute,
                           routeVars>>
       ELSE \E matrix \in SimulatedMatrices(locations[1]) : SetResults(matrix)
    /\ UNCHANGED <<serviceVars, appLocations, nextId>>

\* getOptimizedRoute has settled: null is thrown, caught and the run is over;
\* otherwise getDistanceMatrix is called, which waits for the service when
\* the key is configured and the API loaded, and resolves at once when not
HandleOptimizeRouteContinue ==
    /\ appPc = "awaitRoute"
    /\ orPc = "settled"
    /\ IF orResult = <<>>
       THEN /\ RunOver
            /\ UNCHANGED <<appDistanceMatrix, optimizedRoute>>
       ELSE IF apiKeyConfigured /\ googleLoaded
       THEN /\ appPc' = "awaitMatrix"
            /\ UNCHANGED <<locations, isOptimizing, appDistanceMatrix, optimizedRoute,
                           routeVars>>
       ELSE \E matrix \in SimulatedMatrices(locations[1]) : SetResults(matrix)
    /\ UNCHANGED <<serviceVars, appLocations, nextId>>

\* the Distance Matrix service has answered and getDistanceMatrix resolves
HandleOptimizeRouteMatrix ==
    /\ appPc = "awaitMatrix"
    /\ \E matrix \in AnsweredMatrices(locations[1]) : SetResults(matrix)
    /\ UNCHANGED <<serviceVars, appLocations, nextId>>

InitApp ==
    /\ InitCallers
    /\ InitMapsIdle
    /\ InitAppIdle
    /\ apiKeyConfigured \in BOOLEAN
    /\ googleLoaded \in BOOLEAN
    /\ locations = Everywhere(<<>>)
    /\ distanceMatrix = Everywhere(EmptyMatrix)
    /\ tourIn = Everywhere(<<>>)

NextApp ==
    \/ LocationFormAdd
    \/ LocationFormRemove
    \/ HandleOptimizeRoute
    \/ GetOptimizedRoute
    \/ DirectionsAnswer
    \/ HandleOptimizeRouteContinue
    \/ HandleOptimizeRouteMatrix

SpecApp == InitApp /\ [][NextApp]_vars

\* the application with a base and deliveries entered, MaxStops locations in
\* all
InitAppLive ==
    /\ InitCallers
    /\ InitMapsIdle
    /\ apiKeyConfigured \in BOOLEAN
    /\ googleLoaded \in BOOLEAN
    /\ appLocations = [k \in 1..MaxStops |-> [id |-> StopIds[k], isBase |-> k = 1]]
    /\ appDistanceMatrix = EmptyMatrix
    /\ optimizedRoute = <<>>
    /\ isOptimizing = FALSE
    /\ appPc = "idle"
    /\ nextId = MaxStops + 1
    /\ orPc = "idle"
    /\ orResult = <<>>
    /\ orAnswer = <<>>
    /\ locations = Everywhere(<<>>)
    /\ distanceMatrix = Everywhere(EmptyMatrix)
    /\ tourIn = Everywhere(<<>>)

\* the steps of a run of handleOptimizeRoute after the click
RunStep ==
    \/ GetOptimizedRoute
    \/ DirectionsAnswer
    \/ HandleOptimizeRouteContinue
    \/ HandleOptimizeRouteMatrix

\* the user removes locations and clicks; no location is added
NextAppLive ==
    \/ LocationFormRemove
    \/ HandleOptimizeRoute
    \/ RunStep

\* promise reactions that are ready run, and the Google Maps services answer
\* every request
SpecAppLive == InitAppLive /\ [][NextAppLive]_vars /\ WF_vars(RunStep)

----------------------------------------------------------------------------
(* Properties *)

Count(s, x) == Cardinality({k \in 1..Len(s) : s[k] = x})

NumBases(locs) == Cardinality({k \in 1..Len(locs) : locs[k].isBase})

NumDeliveries(locs) == Len(locs) - NumBases(locs)

\* order starts and ends with the base id and holds every other stop once
IsTourOf(order, locs) ==
    /\ Len(order) >= 2
    /\ order[1] = FindBase(locs).id
    /\ order[Len(order)] = FindBase(locs).id
    /\ \A k \in 1..Len(locs) : ~locs[k].isBase => Count(order, locs[k].id) = 1

\* C1 as stated: with exactly one base and at least one delivery, the order
\* optimizeRoute returns starts and ends with the base id and holds every
\* non-base stop id exactly once.
C1_AnyStopCount ==
    \A r \in Runs :
        (result[r] # <<>> /\ NumBases(locations[r]) = 1 /\ NumDeliveries(locations[r]) >= 1)
            => IsTourOf(result[r][1].order, locations[r])

\* C1 amended: with exactly one base and more than 2 stops (at least two
\* deliveries), the order optimizeRoute returns starts and ends with the base
\* id, holds every non-base stop id exactly once, and has one position more
\* than there are stops.
C1_TourOfAllStops ==
    \A r \in Runs :
        (result[r] # <<>> /\ NumBases(locations[r]) = 1 /\ Len(locations[r]) > 2)
            => /\ IsTourOf(result[r][1].order, locations[r])
               /\ Len(result[r][1].order) = Len(locations[r]) + 1

\* optimizeRoute returned a tour that visits the deliveries out of input order
C1_Witness ==
    /\ result[1] # <<>>
    /\ NumBases(locations[1]) = 1
    /\ Len(locations[1]) = 3
    /\ locations[1][1].isBase
    /\ result[1][1].order = <<"L1", "L3", "L2", "L1">>

\* C2 as stated: whatever the length of the stop list, without a base
\* optimizeRoute fails with the missing-base error and returns nothing.
C2_AnyLength ==
    \A r \in Runs :
        (~HasBase(locations[r]) /\ pc[r] # "idle")
            => /\ pc[r] = "threw"
               /\ error[r] = "Base location not found"
               /\ result[r] = <<>>

\* C2 amended: without a base, a stop list of more than 2 stops makes
\* optimizeRoute fail with the missing-base error, with no result and no
\* construction step taken; a stop list of 2 or fewer stops gets the
\* degenerate result and no error.
C2_MissingBase ==
    \A r \in Runs :
        (~HasBase(locations[r]) /\ pc[r] # "idle")
            => IF Len(locations[r]) > 2
               THEN /\ pc[r] = "threw"
                    /\ error[r] = "Base location not found"
                    /\ result[r] = <<>>
                    /\ route[r] = <<>>
               ELSE /\ error[r] = ""
                    /\ result[r] # <<>>

\* optimizeRoute threw on three stops, none of them flagged
C2_Witness ==
    /\ pc[1] = "threw"
    /\ Len(locations[1]) = 3
    /\ ~HasBase(locations[1])

\* C3: with 2 or fewer stops optimizeRoute returns the input ids in input
\* order, nothing appended, and totals all 0, whatever the matrix holds.
C3_Degenerate ==
    \A r \in Runs :
        (Len(locations[r]) <= 2 /\ pc[r] # "idle")
            => /\ result[r] # <<>>
               /\ Len(result[r][1].order) = Len(locations[r])
               /\ \A k \in 1..Len(locations[r]) : result[r][1].order[k] = locations[r][k].id
               /\ result[r][1].totalDistance = 0
               /\ result[r][1].totalTime = 0
               /\ result[r][1].totalCost = Finite(0)

\* the degenerate result for a base and one delivery whose legs have a cost
C3_Witness ==
    /\ result[1] # <<>>
    /\ Len(locations[1]) = 2
    /\ locations[1][1].isBase
    /\ ~locations[1][2].isBase
    /\ calculateCost("L1", "L2", distanceMatrix[1]) = Finite(5 * CostScale)
    /\ result[1][1].order = <<"L1", "L2">>

\* C4: calculateCost returns +Infinity exactly when the row is absent, the
\* entry is absent or the status is not "OK"; it is finite otherwise.
C4_InfiniteIffUnavailable ==
    costOut # <<>> =>
        LET fromId == costArgs[1]
            toId == costArgs[2]
            matrix == distanceMatrix[1]
        IN costOut[1].inf <=>
              \/ fromId \notin DOMAIN matrix
              \/ toId \notin DOMAIN matrix[fromId]
              \/ matrix[fromId][toId].status # "OK"

\* calculateCost answered +Infinity for an entry that is there, with
\* distance and duration, but whose status is not "OK"
C4_Witness ==
    /\ costOut # <<>>
    /\ costOut[1].inf
    /\ costArgs[1] \in DOMAIN distanceMatrix[1]
    /\ costArgs[2] \in DOMAIN distanceMatrix[1][costArgs[1]]
    /\ distanceMatrix[1][costArgs[1]][costArgs[2]].status = "ZERO_RESULTS"

\* C5: for an entry with status "OK", 10 * 60000 * cost = 180 * metres +
\* 7000 * seconds; an OK entry with distance 0 and duration 0 costs 0.
C5_WeightedSum ==
    (/\ costOut # <<>>
     /\ costArgs[1] \in DOMAIN distanceMatrix[1]
     /\ costArgs[2] \in DOMAIN distanceMatrix[1][costArgs[1]]
     /\ distanceMatrix[1][costArgs[1]][costArgs[2]].status = "OK")
        => LET element == distanceMatrix[1][costArgs[1]][costArgs[2]]
           IN /\ ~costOut[1].inf
              /\ costOut[1].val = 180 * element.distance.value + 7000 * element.duration.value
              /\ (element.distance.value = 0 /\ element.duration.value = 0)
                    => costOut[1].val = 0

\* calculateCost on an OK entry whose distance and duration weigh differently
C5_Witness ==
    /\ costOut # <<>>
    /\ costArgs = <<"L1", "L2">>
    /\ HasElement(distanceMatrix[1], "L1", "L2")
    /\ distanceMatrix[1]["L1"]["L2"] = Element(1, 0, "OK")
    /\ costOut[1] = Finite(180)

InRefiner(r) == pc[r] \in {"while", "for", "refined"}

\* the tours one segment reversal away from t
OneReversal(t) ==
    {swap2Opt(t, a, b) : a \in 1..(Len(t) - 2), b \in 1..(Len(t) - 2)}

\* C6, state part: the best cost is the cost of the best tour held and is no
\* more than the cost of the input tour; so is the cost of the tour returned.
C6_StateCostBound ==
    \A r \in Runs :
        InRefiner(r) =>
            /\ bestCost[r] = calculateRouteCost(bestRoute[r], distanceMatrix[r])
            /\ LessEq(bestCost[r], calculateRouteCost(tourIn[r], distanceMatrix[r]))
            /\ tourOut[r] # <<>> =>
                  LessEq(calculateRouteCost(tourOut[r][1], distanceMatrix[r]),
                         calculateRouteCost(tourIn[r], distanceMatrix[r]))

\* C6, step part: no step of the refiner increases the best cost, and a step
\* that changes the best tour strictly decreases it.
C6_StepCostBound ==
    \A r \in Runs :
        (InRefiner(r) /\ InRefiner(r)') =>
            /\ LessEq(bestCost[r]', bestCost[r])
            /\ bestRoute[r]' # bestRoute[r] => Less(bestCost[r]', bestCost[r])

\* C6: both parts, as one property: the cost bound in every state and the
\* best cost never increasing in any step.
C6_CostNeverIncreases == [](C6_StateCostBound) /\ [][C6_StepCostBound]_vars

\* optimize2Opt returned a strictly cheaper tour that no single reversal of
\* its input gives: at least two moves were accepted
C6_Witness ==
    /\ pc[1] = "refined"
    /\ calls[1] = 1
    /\ Less(calculateRouteCost(tourOut[1][1], distanceMatrix[1]),
            calculateRouteCost(tourIn[1], distanceMatrix[1]))
    /\ tourOut[1][1] \notin OneReversal(tourIn[1])

\* C7: optimize2Opt applied to its own result, with the same matrix, returns
\* that result element for element.
C7_Idempotent ==
    \A r \in Runs :
        (pc[r] = "refined" /\ calls[r] = 2) => tourOut[r] = prevOut[r]

\* the second call returned, on a tour the first call had reordered
C7_Witness ==
    /\ pc[1] = "refined"
    /\ calls[1] = 2
    /\ Len(prevOut[1][1]) = 5
    /\ prevOut[1][1] \notin TourShapes(3)
    /\ tourOut[1] = prevOut[1]

\* C8: all through optimize2Opt the best tour has the length of the input
\* tour, its first and its last element, and the same multiset of ids.
C8_SameStopsSameEnds ==
    \A r \in Runs :
        InRefiner(r) =>
            /\ Len(bestRoute[r]) = Len(tourIn[r])
            /\ Len(tourIn[r]) > 0 =>
                  /\ bestRoute[r][1] = tourIn[r][1]
                  /\ bestRoute[r][Len(tourIn[r])] = tourIn[r][Len(tourIn[r])]
            /\ \A k \in 1..Len(StopIds) :
                  Count(bestRoute[r], StopIds[k]) = Count(tourIn[r], StopIds[k])
            /\ tourOut[r] # <<>> => tourOut[r][1] = bestRoute[r]

\* a move was accepted on a tour that holds one stop twice and does not end
\* where it starts
C8_Witness ==
    /\ pc[1] = "for"
    /\ calls[1] = 1
    /\ bestRoute[1] # tourIn[1]
    /\ Len(tourIn[1]) = 5
    /\ tourIn[1][1] # tourIn[1][5]

C10_Scenario(r) ==
    /\ locations[r] = <<[id |-> "L1", isBase |-> TRUE], [id |-> "L2", isBase |-> FALSE],
                        [id |-> "L3", isBase |-> FALSE]>>
    /\ calculateCost("L1", "L2", distanceMatrix[r]) = Finite(1 * CostScale)
    /\ calculateCost("L1", "L3", distanceMatrix[r]) = Finite(5 * CostScale)
    /\ calculateCost("L2", "L3", distanceMatrix[r]) = Finite(1 * CostScale)
    /\ calculateCost("L3", "L2", distanceMatrix[r]) = Finite(1 * CostScale)
    /\ calculateCost("L2", "L1", distanceMatrix[r]) = Finite(1 * CostScale)
    /\ calculateCost("L3", "L1", distanceMatrix[r]) = Finite(5 * CostScale)

\* C10: in that scenario the constructor returns [B, D1, D2, B], of total
\* route cost 7, and optimize2Opt on that tour returns it unchanged.
C10_ScenarioTour ==
    \A r \in Runs :
        C10_Scenario(r) =>
            /\ result[r] # <<>> =>
                  /\ result[r][1].order = <<"L1", "L2", "L3", "L1">>
                  /\ calculateRouteCost(result[r][1].order, distanceMatrix[r])
                        = Finite(7 * CostScale)
                  /\ result[r][1].totalCost = Finite(7 * CostScale)
            /\ pc[r] = "refined" =>
                  /\ tourIn[r] = <<"L1", "L2", "L3", "L1">>
                  /\ tourOut[r] = <<tourIn[r]>>

\* the scenario ran to the end of the refinement
C10_Witness ==
    /\ C10_Scenario(1)
    /\ pc[1] = "refined"
    /\ tourOut[1] # <<>>

\* the input of C11: base B = L1, deliveries L2, L3, L4, every leg of cost 1
\* but the leg from L4 back to the base, of cost 5
C11_Scenario(r) ==
    /\ locations[r] = <<[id |-> "L1", isBase |-> TRUE], [id |-> "L2", isBase |-> FALSE],
                        [id |-> "L3", isBase |-> FALSE], [id |-> "L4", isBase |-> FALSE]>>
    /\ distanceMatrix[r] = MatrixOf(4, [p \in {<<"L4", "L1">>} |-> "high"])

\* C11: there is an input with one base and three deliveries on which
\* optimize2Opt, applied to the nearest-neighbour tour, returns a tour of
\* strictly lower total cost: on the input above the constructor returns
\* [L1, L2, L3, L4, L1], of cost 8, and the refiner returns
\* [L1, L4, L3, L2, L1], of cost 4.
C11_RefinerBeatsConstructor ==
    \A r \in Runs :
        (C11_Scenario(r) /\ pc[r] = "refined") =>
            /\ result[r][1].order = <<"L1", "L2", "L3", "L4", "L1">>
            /\ tourIn[r] = result[r][1].order
            /\ calculateRouteCost(tourIn[r], distanceMatrix[r]) = Finite(8 * CostScale)
            /\ tourOut[r] = <<(<<"L1", "L4", "L3", "L2", "L1">>)>>
            /\ calculateRouteCost(tourOut[r][1], distanceMatrix[r]) = Finite(4 * CostScale)
            /\ Less(calculateRouteCost(tourOut[r][1], distanceMatrix[r]),
                    calculateRouteCost(tourIn[r], distanceMatrix[r]))

\* the refinement of the nearest-neighbour tour of that input has returned
C11_Witness ==
    /\ C11_Scenario(1)
    /\ NumBases(locations[1]) = 1
    /\ NumDeliveries(locations[1]) = 3
    /\ pc[1] = "refined"
    /\ result[1] # <<>>
    /\ tourIn[1] = result[1][1].order
    /\ tourOut[1] # <<tourIn[1]>>

\* C12: for every result of optimizeRoute on more than 2 stops, totalCost is
\* the sum of calculateCost over all consecutive pairs of the returned order,
\* i.e. calculateRouteCost(order), also when a leg has a missing or non-OK
\* entry.
C12_TotalCostIsRouteCost ==
    \A r \in Runs :
        (result[r] # <<>> /\ Len(locations[r]) > 2)
            => result[r][1].totalCost
                  = calculateRouteCost(result[r][1].order, distanceMatrix[r])

\* the positions k of order whose leg order[k] -> order[k+1] has an entry
\* with status "OK"
OkLegs(order, matrix) ==
    {k \in 0..(Len(order) - 2) :
        /\ HasElement(matrix, At(order, k), At(order, k + 1))
        /\ matrix[At(order, k)][At(order, k + 1)].status = "OK"}

\* the sum of f over the finite set S
RECURSIVE SumOver(_, _)
SumOver(S, f) ==
    IF S = {} THEN 0
    ELSE LET x == CHOOSE y \in S : TRUE IN f[x] + SumOver(S \ {x}, f)

\* C13: for every result of optimizeRoute on more than 2 stops, totalDistance
\* (held in metres) is the sum of the distances, and totalTime (held in
\* seconds) the sum of the durations, of exactly the legs of the returned
\* order whose entry is there with status "OK"; the other legs add nothing.
C13_TotalsOverOkLegs ==
    \A r \in Runs :
        (result[r] # <<>> /\ Len(locations[r]) > 2) =>
            LET order == result[r][1].order
                matrix == distanceMatrix[r]
                legs == OkLegs(order, matrix)
            IN /\ result[r][1].totalDistance =
                     SumOver(legs, [k \in legs |->
                                      matrix[At(order, k)][At(order, k + 1)].distance.value])
               /\ result[r][1].totalTime =
                     SumOver(legs, [k \in legs |->
                                      matrix[At(order, k)][At(order, k + 1)].duration.value])

\* a result whose order has a leg without entry, a leg whose entry is not
\* OK, and an OK leg that is counted
C13_Witness ==
    /\ result[1] # <<>>
    /\ Len(locations[1]) > 2
    /\ LET order == result[1][1].order
           matrix == distanceMatrix[1]
       IN /\ \E k \in 0..(Len(order) - 2) :
                ~HasElement(matrix, At(order, k), At(order, k + 1))
          /\ \E k \in 0..(Len(order) - 2) :
                /\ HasElement(matrix, At(order, k), At(order, k + 1))
                /\ matrix[At(order, k)][At(order, k + 1)].status # "OK"
          /\ OkLegs(order, matrix) # {}
    /\ result[1][1].totalDistance = 1000
    /\ result[1][1].totalTime = 60

\* C14, the selections of the constructor: the stops selected so far and the
\* stops still unvisited are as many as the deliveries, each step selects
\* one, and the constructor returns with every delivery selected.
C14_OneSelectionEach ==
    /\ pc[1] = "nn" =>
          (Len(route[1]) - 1) + Len(unvisited[1]) = NumDeliveries(locations[1])
    /\ (pc[1] = "returned" /\ Len(locations[1]) > 2) =>
          /\ Len(unvisited[1]) = 0
          /\ Len(route[1]) - 2 = NumDeliveries(locations[1])

C14_SelectionStep ==
    (pc[1] = "nn" /\ pc'[1] = "nn") =>
        /\ Len(unvisited'[1]) = Len(unvisited[1]) - 1
        /\ Len(route'[1]) = Len(route[1]) + 1

\* a loop of the constructor or of the refiner is running
C14_InLoop == pc[1] \in {"nn", "while", "for"}

\* C14: on every tour and matrix, with missing entries and tours of infinite
\* cost among them, a call of optimize2Opt returns, and it does so after a
\* pass that accepted no move; a call of nearestNeighborTSP returns, after
\* exactly one selection per delivery.  (No loop runs for ever: again and
\* again no loop is running.)
C14_Terminates ==
    /\ []<>(~C14_InLoop)
    /\ [](pc[1] = "refined" => ~improved[1])
    /\ [](C14_OneSelectionEach)
    /\ [][C14_SelectionStep]_vars

\* optimize2Opt returned, after accepted moves and a last pass without any,
\* on a tour of three interior stops whose cost was infinite
C14_Witness ==
    /\ pc[1] = "refined"
    /\ ~improved[1]
    /\ calls[1] = 1
    /\ Len(tourIn[1]) = 5
    /\ calculateRouteCost(tourIn[1], distanceMatrix[1]) = Infinity
    /\ tourOut[1] # <<tourIn[1]>>

\* C15, state part: the deliveries list is the one optimizeRoute passed, the
\* non-base stops in input order, all through the construction and after it;
\* the tour the refiner was given is the order of the result, as returned.
C15_InputsAsGiven ==
    \A r \in Runs :
        /\ (pc[r] \in {"nn", "returned", "while", "for", "refined"} /\ Len(locations[r]) > 2)
              => deliveries[r] = FilterDeliveries(locations[r])
        /\ (pc[r] \in {"while", "for", "refined"} /\ result[r] # <<>> /\ calls[r] = 1)
              => tourIn[r] = result[r][1].order

\* C15, step part: no step changes the stop list or the matrix; no step of
\* the constructor changes the deliveries list; no step of the refiner
\* changes the tour it was given or the result that holds it.
C15_InputsKept ==
    \A r \in Runs :
        /\ locations'[r] = locations[r]
        /\ distanceMatrix'[r] = distanceMatrix[r]
        /\ pc[r] = "nn" => deliveries'[r] = deliveries[r]
        /\ pc[r] \in {"while", "for"} =>
              /\ tourIn'[r] = tourIn[r]
              /\ result'[r] = result[r]

\* C15: optimizeRoute, nearestNeighborTSP and optimize2Opt leave their inputs
\* as they were: the stop list, the deliveries list, the tour given to
\* optimize2Opt and every entry of the matrix.
C15_InputsUnchanged == [](C15_InputsAsGiven) /\ [][C15_InputsKept]_vars

\* every delivery was taken off the unvisited list and the refiner returned
\* a tour other than the one it was given
C15_Witness ==
    /\ pc[1] = "refined"
    /\ Len(deliveries[1]) = 2
    /\ unvisited[1] = <<>>
    /\ result[1] # <<>>
    /\ tourIn[1] = result[1][1].order
    /\ tourOut[1] # <<tourIn[1]>>

\* the components of invocation q
C16_Locals(q) ==
    <<locations[q], distanceMatrix[q], pc[q], deliveries[q], unvisited[q], route[q],
      current[q], result[q], error[q], tourIn[q], improved[q], bestRoute[q],
      bestCost[q], iIdx[q], jIdx[q], tourOut[q], calls[q], prevOut[q]>>

\* C16, state part: whatever the other invocation has done, an invocation
\* ends the way it ends alone on its stop list and matrix: same result or
\* same error from optimizeRoute, same tour from optimize2Opt.
C16_AsAlone ==
    \A r \in Runs :
        /\ pc[r] \in {"returned", "while", "for", "refined"}
              => result[r] = optimizeRoute(locations[r], distanceMatrix[r])
        /\ pc[r] = "threw"
              => optimizeRoute(locations[r], distanceMatrix[r]) = <<>>
        /\ pc[r] = "refined"
              => tourOut[r] = <<optimize2Opt(result[r][1].order, distanceMatrix[r])>>

\* C16, step part: every step is the step of one invocation and leaves
\* everything the other invocation holds as it was.
C16_OwnState ==
    \E r \in Runs : \A q \in Runs \ {r} : C16_Locals(q)' = C16_Locals(q)

\* C16: two invocations of optimizeRoute and optimize2Opt, each on its own
\* stop list and matrix, their steps interleaved in any way, produce what each
\* produces alone, and no step of one touches what the other holds.
C16_Independent == [](C16_AsAlone) /\ [][C16_OwnState]_vars

\* one invocation has refined its tour into another one while the other
\* invocation, on a different list and matrix, is still selecting stops
C16_Witness ==
    /\ pc[1] = "refined"
    /\ tourOut[1] # <<tourIn[1]>>
    /\ pc[2] = "nn"
    /\ Len(route[2]) = 2
    /\ locations[1] # locations[2]
    /\ distanceMatrix[1] # distanceMatrix[2]

\* C17: getDistanceMatrix never fails: with the key unconfigured, the API not
\* loaded, the request answered with a status other than OK or without
\* response, or elements missing, not OK or incomplete, it resolves with a
\* matrix that has an entry with status "OK" for every ordered pair of input
\* ids, each id with itself included; for the empty list it resolves with
\* the empty matrix.
C17_AlwaysAMatrix ==
    /\ dmPc # "failed"
    /\ dmPc = "resolved" =>
          /\ dmResult # <<>>
          /\ IF Len(locations[1]) = 0
             THEN dmResult[1] = EmptyMatrix
             ELSE \A a, b \in 1..Len(locations[1]) :
                     /\ HasElement(dmResult[1], locations[1][a].id, locations[1][b].id)
                     /\ dmResult[1][locations[1][a].id][locations[1][b].id].status = "OK"

\* the call resolved with a matrix built from a response: it holds an entry
\* taken from the response and a simulated one
C17_Witness ==
    /\ dmPc = "resolved"
    /\ apiKeyConfigured
    /\ googleLoaded
    /\ Len(locations[1]) = 3
    /\ realOutcome # <<>>
    /\ realOutcome[1] = "resolved"
    /\ dmResult[1]["L1"]["L2"] = Element(1000, 60, "OK")
    /\ dmResult[1]["L2"]["L1"] \in SimulatedRolls
    /\ dmResult[1]["L3"]["L3"] = Zero

\* nearestNeighborTSP was called with a list of deliveries that is not empty
\* and has returned
C18_Returned(r) ==
    /\ pc[r] \in {"returned", "while", "for", "refined"}
    /\ Len(locations[r]) > 2
    /\ Len(deliveries[r]) > 0

\* C18: for a base and a list of deliveries that is not empty, of ids that
\* differ from each other and from the base id, the tour nearestNeighborTSP
\* returns has as many positions as there are deliveries plus 2, starts and
\* ends with the base id and holds every delivery id once, at an interior
\* position; whatever the matrix, the empty one included.
C18_ConstructorTour ==
    \A r \in Runs :
        C18_Returned(r) =>
            LET t == route[r]
                base == FindBase(locations[r])
            IN /\ Len(t) = Len(deliveries[r]) + 2
               /\ t[1] = base.id
               /\ t[Len(t)] = base.id
               /\ \A k \in 1..Len(deliveries[r]) :
                     /\ Count(t, deliveries[r][k].id) = 1
                     /\ \E h \in 2..(Len(t) - 1) : t[h] = deliveries[r][k].id

\* the constructor returned the tour of two deliveries on the empty matrix
C18_Witness ==
    /\ C18_Returned(1)
    /\ distanceMatrix[1] = EmptyMatrix
    /\ Len(deliveries[1]) = 2
    /\ route[1] = <<"L1", "L2", "L3", "L1">>

\* the cost from the current stop of invocation r to the stop at position k
\* of its unvisited list
CostToCandidate(r, k) ==
    calculateCost(current[r][1].id, At(unvisited[r], k).id, distanceMatrix[r])

\* s without its position k, the rest in the same order
Without(s, k) == SubSeq(s, 1, k) \o SubSeq(s, k + 2, Len(s))

\* C19, state part: the unvisited list is the list of deliveries without the
\* stops already in the tour, in input order.
C19_InputOrder ==
    \A r \in Runs :
        pc[r] = "nn" =>
            unvisited[r] =
                SelectSeq(deliveries[r],
                          LAMBDA d : \A h \in 1..Len(route[r]) : route[r][h] # d.id)

\* C19, step part: the stop a selection step appends is, of the unvisited
\* stops of minimum cost from the current stop, the one at the lowest
\* position; it is the first unvisited stop when every cost is infinite; it
\* becomes the current stop, leaves the unvisited list, and the construction
\* goes on.
C19_SelectionStep ==
    \A r \in Runs :
        (pc[r] = "nn" /\ route'[r] # route[r] /\ pc'[r] = "nn") =>
            \E k \in 0..(Len(unvisited[r]) - 1) :
                /\ route'[r] = Append(route[r], At(unvisited[r], k).id)
                /\ current'[r] = <<At(unvisited[r], k)>>
                /\ unvisited'[r] = Without(unvisited[r], k)
                /\ \A h \in 0..(Len(unvisited[r]) - 1) :
                      LessEq(CostToCandidate(r, k), CostToCandidate(r, h))
                /\ \A h \in 0..(k - 1) :
                      Less(CostToCandidate(r, k), CostToCandidate(r, h))
                /\ (\A h \in 0..(Len(unvisited[r]) - 1) : CostToCandidate(r, h) = Infinity)
                      => k = 0

\* every step out of the loop state with stops left is a selection step
C19_NoOtherStep ==
    \A r \in Runs :
        (pc[r] = "nn" /\ Len(unvisited[r]) > 0 /\ pc'[r] # pc[r]) => FALSE

C20_SelectionStep ==
    \A r \in Runs :
        (/\ pc[r] = "nn"
         /\ route'[r] # route[r]
         /\ pc'[r] = "nn"
         /\ \E h \in 0..(Len(unvisited[r]) - 1) : ~CostToCandidate(r, h).inf)
            => ~calculateCost(current[r][1].id, route'[r][Len(route'[r])],
                              distanceMatrix[r]).inf

\* C20: at every step of nearestNeighborTSP, if at least one remaining
\* unvisited stop has a finite cost from the current stop, the edge chosen
\* at that step has a finite cost.
C20_FiniteWhenPossible == [][C20_SelectionStep]_vars

\* the first delivery has infinite cost from the base, the second a finite
\* one, and the second was taken
C20_Witness ==
    /\ pc[1] = "nn"
    /\ Len(deliveries[1]) = 2
    /\ route[1] = <<"L1", "L3">>
    /\ calculateCost("L1", "L2", distanceMatrix[1]) = Infinity
    /\ calculateCost("L1", "L3", distanceMatrix[1]) # Infinity

\* the tours that reversing one interior segment [i..j], i < j, of t gives
InteriorReversals(t) ==
    {swap2Opt(t, p[1], p[2]) :
        p \in {q \in (1..(Len(t) - 2)) \X (1..(Len(t) - 2)) : q[1] < q[2]}}

\* C21, state part: when the tour given to optimize2Opt has infinite cost
\* and some reversal of one interior segment of it has finite cost, the tour
\* returned has finite cost; and a tour of finite cost given is answered by
\* a tour of finite cost.
C21_FiniteResult ==
    \A r \in Runs :
        (pc[r] = "refined" /\ tourOut[r] # <<>>) =>
            LET costIn == calculateRouteCost(tourIn[r], distanceMatrix[r])
                costOut_ == calculateRouteCost(tourOut[r][1], distanceMatrix[r])
            IN /\ (costIn.inf /\ \E t \in InteriorReversals(tourIn[r]) :
                                    ~calculateRouteCost(t, distanceMatrix[r]).inf)
                     => ~costOut_.inf
               /\ ~costIn.inf => ~costOut_.inf

\* C21, step part: once the best tour has finite cost, no step replaces it
\* by a tour of infinite cost.
C21_FiniteKept ==
    \A r \in Runs :
        (InRefiner(r) /\ InRefiner(r)' /\ calls'[r] = calls[r]
         /\ ~calculateRouteCost(bestRoute[r], distanceMatrix[r]).inf)
            => ~calculateRouteCost(bestRoute'[r], distanceMatrix[r]).inf

\* C21: optimize2Opt leaves a tour of infinite cost for one of finite cost
\* whenever one interior reversal gives such a tour, and never replaces a
\* tour of finite cost by one with a leg of infinite cost.
C21_FiniteWhenReachable == [](C21_FiniteResult) /\ [][C21_FiniteKept]_vars

\* a tour of infinite cost was given, a reversal of it has finite cost, and
\* the tour returned has finite cost
C21_Witness ==
    /\ pc[1] = "refined"
    /\ calls[1] = 1
    /\ Len(tourIn[1]) = 5
    /\ calculateRouteCost(tourIn[1], distanceMatrix[1]).inf
    /\ \E t \in InteriorReversals(tourIn[1]) :
          ~calculateRouteCost(t, distanceMatrix[1]).inf
    /\ ~calculateRouteCost(tourOut[1][1], distanceMatrix[1]).inf

\* C22: the tour optimize2Opt returns is a 2-opt local optimum: no reversal
\* of one interior segment [i..j], i < j, of it has a strictly lower cost.
C22_LocalOptimum ==
    \A r \in Runs :
        (pc[r] = "refined" /\ tourOut[r] # <<>>) =>
            \A t \in InteriorReversals(tourOut[r][1]) :
                ~Less(calculateRouteCost(t, distanceMatrix[r]),
                      calculateRouteCost(tourOut[r][1], distanceMatrix[r]))

\* optimize2Opt returned a tour of three interior stops other than the one
\* it was given, of finite cost, with reversals that cost more
C22_Witness ==
    /\ pc[1] = "refined"
    /\ calls[1] = 1
    /\ Len(tourIn[1]) = 5
    /\ tourOut[1] # <<tourIn[1]>>
    /\ ~calculateRouteCost(tourOut[1][1], distanceMatrix[1]).inf
    /\ \E t \in InteriorReversals(tourOut[1][1]) :
          Less(calculateRouteCost(tourOut[1][1], distanceMatrix[1]),
               calculateRouteCost(t, distanceMatrix[1]))

\* a reference steepest-descent 2-opt: each pass commits one reversal of the
\* tour held at its start that lowers the cost most, until no reversal lowers
\* it; the results it can reach, whichever of several equal best it commits
ReversalPairs(t) ==
    {q \in (1..(Len(t) - 2)) \X (1..(Len(t) - 2)) : q[1] < q[2]}

RECURSIVE SteepestResults(_, _)
SteepestResults(t, matrix) ==
    LET costOf(p) == calculateRouteCost(swap2Opt(t, p[1], p[2]), matrix)
        better == {p \in ReversalPairs(t) : Less(costOf(p), calculateRouteCost(t, matrix))}
        best == {p \in better : \A q \in better : ~Less(costOf(q), costOf(p))}
    IN IF better = {}
       THEN {t}
       ELSE UNION {SteepestResults(swap2Opt(t, p[1], p[2]), matrix) : p \in best}

\* the first move a pass commits is a cheapest reversal of the tour held at
\* the start of the pass
C23_SteepestStep ==
    \A r \in Runs :
        (InRefiner(r) /\ InRefiner(r)' /\ calls'[r] = calls[r]
         /\ ~improved[r] /\ bestRoute'[r] # bestRoute[r])
            => \A t \in InteriorReversals(bestRoute[r]) :
                   ~Less(calculateRouteCost(t, distanceMatrix[r]), bestCost'[r])

C23_SteepestResult ==
    \A r \in Runs :
        (pc[r] = "refined" /\ tourOut[r] # <<>>) =>
            tourOut[r][1] \in SteepestResults(tourIn[r], distanceMatrix[r])

\* C23 as stated: optimize2Opt is a steepest-improvement 2-opt, the move a
\* pass commits being the reversal with the greatest cost reduction against
\* the tour held at the start of the pass, and its result is that of a
\* reference steepest-descent 2-opt.
C23_Steepest == [](C23_SteepestResult) /\ [][C23_SteepestStep]_vars

\* C23: optimize2Opt is a first-improvement 2-opt: in the order of the scan
\* it commits every reversal strictly cheaper than the tour held when the
\* pair is evaluated, and its result is that of a reference first-improvement
\* 2-opt on every input.
C23_FirstImprovement ==
    \A r \in Runs :
        (pc[r] = "refined" /\ tourOut[r] # <<>>) =>
            tourOut[r][1] = optimize2Opt(tourIn[r], distanceMatrix[r])

\* optimize2Opt returned a tour that steepest descent does not return
C23_Witness ==
    /\ pc[1] = "refined"
    /\ calls[1] = 1
    /\ tourOut[1] # <<tourIn[1]>>
    /\ tourOut[1][1] \notin SteepestResults(tourIn[1], distanceMatrix[1])

\* C25: optimizeRoute applies no 2-opt refinement: with more than 2 stops and
\* a base the order it returns is the tour nearestNeighborTSP makes of the
\* first flagged stop, the unflagged stops in input order and the matrix, and
\* when it returns the refiner has not run; a later optimize2Opt of the
\* caller leaves the returned result as it is.
C25_NoRefinement ==
    \A r \in Runs :
        (result[r] # <<>> /\ Len(locations[r]) > 2) =>
            /\ HasBase(locations[r])
            /\ result[r][1].order =
                  nearestNeighborTSP(FindBase(locations[r]),
                                     FilterDeliveries(locations[r]), distanceMatrix[r])
            /\ pc[r] = "returned" =>
                  (calls[r] = 0 /\ tourOut[r] = <<>> /\ bestRoute[r] = <<>>)

\* optimizeRoute returned an order that is no 2-opt local optimum: reversing
\* its interior gives a strictly cheaper tour
C25_Witness ==
    /\ pc[1] = "returned"
    /\ Len(locations[1]) = 3
    /\ \E t \in InteriorReversals(result[1][1].order) :
          Less(calculateRouteCost(t, distanceMatrix[1]),
               calculateRouteCost(result[1][1].order, distanceMatrix[1]))

\* C26: the three totals of every result of optimizeRoute are finite and
\* totalCost = 0.3 * totalDistance + 0.7 * totalTime, distance in km and time
\* in minutes; with totalDistance held in metres, totalTime in seconds and
\* totalCost scaled by CostScale (weights 3 and 7 for 0.3 and 0.7) this is
\* the equality below.  It holds for
\* any matrix, also when legs of the tour are unavailable.
C26_TotalsConsistent ==
    \A r \in Runs :
        result[r] # <<>> =>
            LET res == result[r][1]
            IN /\ ~res.totalCost.inf
               /\ res.totalDistance \in Nat
               /\ res.totalTime \in Nat
               /\ res.totalCost.val =
                     DISTANCE_WEIGHT * SecondsPerMin * res.totalDistance
                     + TIME_WEIGHT * MetresPerKm * res.totalTime

\* optimizeRoute returned a tour with an unavailable leg and an available one
C26_Witness ==
    /\ pc[1] = "returned"
    /\ Len(locations[1]) = 3
    /\ result[1][1].totalCost.val > 0
    /\ \E k \in 1..(Len(result[1][1].order) - 1) :
          calculateCost(result[1][1].order[k], result[1][1].order[k + 1],
                        distanceMatrix[1]).inf

\* C27: with more than one stop flagged isBase, and more than 2 stops in all,
\* the order optimizeRoute returns starts and ends with the first flagged stop
\* in input order and holds no other flagged stop; it holds each unflagged
\* stop once, so its length is the number of unflagged stops plus 2, which is
\* not the number of stops plus 1.
C27_FirstBaseOnly ==
    \A r \in Runs :
        (result[r] # <<>> /\ Len(locations[r]) > 2 /\ NumBases(locations[r]) > 1) =>
            LET locs == locations[r]
                order == result[r][1].order
                flagged == {k \in 1..Len(locs) : locs[k].isBase}
                first == CHOOSE k \in flagged : \A h \in flagged : k <= h
            IN /\ order[1] = locs[first].id
               /\ order[Len(order)] = locs[first].id
               /\ \A k \in flagged \ {first} : Count(order, locs[k].id) = 0
               /\ \A k \in (1..Len(locs)) \ flagged : Count(order, locs[k].id) = 1
               /\ Len(order) = NumDeliveries(locs) + 2
               /\ Len(order) # Len(locs) + 1

\* optimizeRoute returned for the stops L1, L2 flagged and L3 unflagged
C27_Witness ==
    /\ pc[1] = "returned"
    /\ Len(locations[1]) = 3
    /\ locations[1][1].isBase /\ locations[1][2].isBase /\ ~locations[1][3].isBase
    /\ result[1][1].order = <<"L1", "L3", "L1">>

\* C24, state part: at most one location of the application's list is
\* flagged as base.
C24_OneBase == NumBases(appLocations) <= 1

\* C24, step part: a step that adds a flagged location leaves it the only
\* flagged one, after the unflagged ones of before in their order.
C24_BaseReplaced ==
    (nextId' = nextId + 1 /\ appLocations'[Len(appLocations')].isBase)
        => appLocations' =
               Append(FilterDeliveries(appLocations),
                      [id |-> StopIds[nextId], isBase |-> TRUE])

\* C24: after any sequence of handleAddLocation and handleRemoveLocation
\* calls from the empty list at most one location is flagged as base, and
\* adding a flagged location removes every location flagged before.
C24_AtMostOneBase == [](C24_OneBase) /\ [][C24_BaseReplaced]_vars

\* a second base was added to a list that had one, L1, the base of the route
\* shown: L1 is gone
C24_Witness ==
    /\ Len(appLocations) = 3
    /\ appLocations[3] = [id |-> "L4", isBase |-> TRUE]
    /\ appLocations[1].id = "L2"
    /\ optimizedRoute # <<>>
    /\ optimizedRoute[1].order[1] = "L1"

\* C28: whenever optimizedRoute is not null, every id of optimizedRoute.order
\* is the id of a location of the application's list, after every
\* interleaving of adding a location, adding a base, removing a location and
\* the completion of handleOptimizeRoute.
C28_OrderOfCurrentLocations ==
    optimizedRoute # <<>> =>
        \A k \in 1..Len(optimizedRoute[1].order) :
            \E h \in 1..Len(appLocations) :
                appLocations[h].id = optimizedRoute[1].order[k]

\* C29, state part: while a run of handleOptimizeRoute is under way
\* isOptimizing is true.
C29_OptimizingWhileRunning == appPc # "idle" => isOptimizing

\* C29, step part: the click that starts a run sets isOptimizing, and the
\* step that ends a run whose getOptimizedRoute gave null resets it and
\* leaves optimizedRoute and distanceMatrix as they were.
C29_RunStep ==
    /\ (appPc = "idle" /\ appPc' # "idle") => (Len(appLocations) >= 3 /\ isOptimizing')
    /\ (appPc = "awaitRoute" /\ appPc' = "idle" /\ orResult = <<>>)
          => /\ ~isOptimizing'
             /\ optimizedRoute' = optimizedRoute
             /\ appDistanceMatrix' = appDistanceMatrix

\* C29: every run of handleOptimizeRoute that starts (3 locations or more)
\* sets isOptimizing to true and in the end sets it back to false, whether
\* getOptimizedRoute gives a result or null, given that the Google Maps
\* callbacks fire; when it fails optimizedRoute and distanceMatrix keep the
\* values they had.
C29_EventuallyDone ==
    /\ [](C29_OptimizingWhileRunning)
    /\ [][C29_RunStep]_vars
    /\ (isOptimizing ~> ~isOptimizing)

\* a run whose getOptimizedRoute gave null is about to end while the result
\* of an earlier run is shown
C29_Witness ==
    /\ appPc = "awaitRoute"
    /\ orPc = "settled"
    /\ orResult = <<>>
    /\ isOptimizing
    /\ optimizedRoute # <<>>
    /\ appDistanceMatrix # EmptyMatrix

\* getOptimizedRoute took a fallback path: no key, an exception (the API not
\* loaded), or an answer of the Directions service that is no success
C30_FallbackPath ==
    \/ ~apiKeyConfigured
    \/ ~googleLoaded
    \/ (orAnswer # <<>> /\ ~(orAnswer[1] = "OK" /\ orAnswer[2] # <<>>))

\* the Directions service answered OK with a result that holds no route
C30_NoRoute ==
    /\ apiKeyConfigured
    /\ googleLoaded
    /\ orAnswer # <<>>
    /\ orAnswer[1] = "OK"
    /\ orAnswer[2] # <<>>
    /\ orAnswer[2][1].routes = <<>>

\* the result is an order from the base to the base through every unflagged
\* location once, in input order on a fallback path
C30_Order ==
    /\ orResult # <<>>
    /\ IsTourOf(orResult[1].optimizedOrder, locations[1])
    /\ Len(orResult[1].optimizedOrder) = NumDeliveries(locations[1]) + 2
    /\ C30_FallbackPath =>
          orResult[1].optimizedOrder =
              <<FindBase(locations[1]).id>> \o MapIds(FilterDeliveries(locations[1]))
                  \o <<FindBase(locations[1]).id>>

\* C30 as stated: getOptimizedRoute returns null with fewer than 3 locations
\* or no base, and on every other path an order that starts and ends with
\* the base id and holds every non-base id once, the fallback paths keeping
\* the deliveries in input order.
C30_NullOnlyWithoutInput ==
    orPc = "settled" =>
        IF Len(locations[1]) < 3 \/ ~HasBase(locations[1])
        THEN orResult = <<>>
        ELSE C30_Order

\* C30 amended: getOptimizedRoute returns null with fewer than 3 locations or
\* no base, and also when the Directions service answers OK with a result
\* that holds no route; on every other path it returns an order that starts
\* and ends with the base id and holds every non-base id once, the fallback
\* paths keeping the deliveries in input order.
C30_NullOrOrder ==
    orPc = "settled" =>
        IF Len(locations[1]) < 3 \/ ~HasBase(locations[1]) \/ C30_NoRoute
        THEN orResult = <<>>
        ELSE C30_Order

\* with a base and two deliveries the Directions service answered OK without
\* a route, and getOptimizedRoute returned null
C30_Witness ==
    /\ orPc = "settled"
    /\ Len(locations[1]) = 3
    /\ NumBases(locations[1]) = 1
    /\ C30_NoRoute
    /\ orResult = <<>>

====
